---- MODULE Spec2Model ----
(***************************************************************************)
(* vimdoc2html: the concrete syntax tree (CST) handed over by tree-sitter, *)
(* the cursor walks of the Visitor trait (visit_all, visit_children) with  *)
(* the debug visitor and HtmlVisitor, and the typed builder (the parse!    *)
(* macro family of parser.rs).                                             *)
(*                                                                         *)
(* A CST is a record [n, parent, kind, missing, text]: nodes are 1..n in   *)
(* document (pre-order) numbering, node 1 is the root, parent[1] = 0, the  *)
(* children of a node are its nodes by increasing number.  A start         *)
(* position is represented by the node it was read from.  A string is a    *)
(* sequence of one-character strings; a piece of generated markup is one   *)
(* element of such a sequence.                                             *)
(***************************************************************************)
EXTENDS Integers, Sequences, FiniteSets, TLC

\* Largest number of nodes of a CST.
MaxNodes == 4

\* Largest number of nodes of the CST of a whole document.
MaxDoc == 6

VARIABLES
    tree,      \* the CST the operation runs on
    op,        \* the operation: "visit_all", "visit_children" or "parse"
    visitor,   \* "debug" (the closure of DebugString::from_parser) or "html"
    unnamed,   \* the `unnamed` argument of visit_all / visit_children
    entry,     \* the typed constructor whose parse is called ("" in a walk)
    start,     \* the node the cursor is on when the operation is called
    cursor,    \* the node the TreeCursor is on
    outputs,   \* visit_all: Vec<Vec<Output>>, index = depth
    language,  \* HtmlVisitorState.language: <<>> is None, <<s>> is Some(s)
    calls,     \* every call of Visitor::visit so far: [node, lvl, out], lvl
               \* 0 for a call made by the operation itself
    reports,   \* nodes reported by InvalidNode::report so far
    pc,        \* "loop", "climb", "call", "done" or "panic"
    ret,       \* how visit_all returned: "", "root" or "early"
    result,    \* the string returned by a walk
    presult,   \* the Result returned by a typed constructor
    other,     \* a second walk, as a record of the fields of a walk: the
               \* finished first run of a conversion run twice, or the walk
               \* of another document; pc "none" when there is none
    arg,       \* the argument of a call of a function of utils.rs
    value      \* what that call returned

vars == <<tree, op, visitor, unnamed, entry, start, cursor, outputs, language,
          calls, reports, pc, ret, result, presult, other, arg, value>>

----------------------------------------------------------------------------
\* ---- Sequences ----

RECURSIVE Concat(_)
Concat(ss) == IF ss = <<>> THEN <<>> ELSE Head(ss) \o Concat(Tail(ss))

RECURSIVE SetToSeq(_)
\* the elements of a finite set of numbers, increasing
SetToSeq(S) ==
    IF S = {} THEN <<>>
    ELSE LET m == CHOOSE x \in S : \A y \in S : x <= y
         IN  <<m>> \o SetToSeq(S \ {m})

Min(S) == CHOOSE x \in S : \A y \in S : x <= y

\* the element of a set of one element
Only(S) == CHOOSE x \in S : TRUE

----------------------------------------------------------------------------
\* ---- The CST and its cursor ----

\* The kinds of anonymous (unnamed) nodes of the vimdoc grammar.
AnonymousKinds == {"*", "|", "<", ">"}

\* The fixed vocabulary of named kinds.
Vocabulary ==
    {"argument", "block", "code", "codeblock", "codespan", "column_heading",
     "h1", "h2", "h3", "help_file", "keycode", "language", "line", "line_li",
     "optionlink", "tag", "taglink", "uppercase_name", "url", "word"}

Nodes(t) == 1..t.n

kind(t, n) == t.kind[n]

is_named(t, n) == t.kind[n] \notin AnonymousKinds

is_error(t, n) == t.kind[n] = "ERROR"

is_missing(t, n) == t.missing[n]

start_position(t, n) == n

ChildSet(t, n) == {c \in Nodes(t) : t.parent[c] = n}

Children(t, n) == SetToSeq(ChildSet(t, n))

RECURSIVE depth(_, _)
depth(t, n) == IF t.parent[n] = 0 THEN 0 ELSE 1 + depth(t, t.parent[n])

RECURSIVE IsAncestorOrSelf(_, _, _)
IsAncestorOrSelf(t, a, n) ==
    \/ a = n
    \/ n # 0 /\ t.parent[n] # 0 /\ IsAncestorOrSelf(t, a, t.parent[n])

Subtree(t, n) == {d \in Nodes(t) : IsAncestorOrSelf(t, n, d)}

has_error(t, n) == \E d \in Subtree(t, n) : is_error(t, d) \/ is_missing(t, d)

named_child_count(t, n) == Cardinality({c \in ChildSet(t, n) : is_named(t, c)})

\* The cursor moves return the node moved to, or 0 when the move fails and
\* the cursor stays.
goto_first_child(t, c) ==
    IF ChildSet(t, c) = {} THEN 0 ELSE Min(ChildSet(t, c))

goto_next_sibling(t, c) ==
    LET later == {s \in Nodes(t) : t.parent[s] = t.parent[c] /\ s > c}
    IN  IF t.parent[c] = 0 \/ later = {} THEN 0 ELSE Min(later)

goto_parent(t, c) == t.parent[c]

----------------------------------------------------------------------------
\* ---- Joiner ----

RECURSIVE join(_, _)
\* StringJoiner::join: outputs.join(sep)
join(outs, sep) ==
    IF outs = <<>> THEN <<>>
    ELSE IF Len(outs) = 1 THEN outs[1]
    ELSE outs[1] \o sep \o join(Tail(outs), sep)

\* One line of the debug dump; a newline of the debug dump.
DebugLine(t, n) == [indent |-> 4 * depth(t, n), kind |-> kind(t, n), node |-> n]
DebugNewline == [indent |-> 0, kind |-> "\n", node |-> 0]

NEWLINE_STRING_JOINER == <<DebugNewline>>
SPACE_STRING_JOINER == <<" ">>

----------------------------------------------------------------------------
\* ---- Text: the literals of the renderer and of the noise patterns ----

\* The backtick character (it cannot be written in a string of this notation).
Backtick == "BACKTICK"

L_amp == <<"&", "a", "m", "p", ";">>
L_lt == <<"&", "l", "t", ";">>
L_gt == <<"&", "g", "t", ";">>
L_code_open == <<"<", "c", "o", "d", "e", ">">>
L_code_close == <<"<", "/", "c", "o", "d", "e", ">">>
L_old_help_para ==
    <<"<", "d", "i", "v", " ", "c", "l", "a", "s", "s", "=", "\"", "o", "l",
      "d", "-", "h", "e", "l", "p", "-", "p", "a", "r", "a", "\"", ">">>
L_help_para ==
    <<"<", "d", "i", "v", " ", "c", "l", "a", "s", "s", "=", "\"", "h", "e",
      "l", "p", "-", "p", "a", "r", "a", "\"", ">">>
L_div_close == <<"<", "/", "d", "i", "v", ">">>
L_pre_open == <<"<", "p", "r", "e", ">">>
L_pre_close == <<"<", "/", "p", "r", "e", ">">>
L_pre_code_language ==
    <<"<", "p", "r", "e", ">", "<", "c", "o", "d", "e", " ", "c", "l", "a",
      "s", "s", "=", "\"", "l", "a", "n", "g", "u", "a", "g", "e", "-">>
L_quote_gt == <<"\"", ">">>
L_code_pre_close ==
    <<"<", "/", "c", "o", "d", "e", ">", "<", "/", "p", "r", "e", ">">>
L_column_heading ==
    <<"<", "d", "i", "v", " ", "c", "l", "a", "s", "s", "=", "\"", "h", "e",
      "l", "p", "-", "c", "o", "l", "u", "m", "n", "_", "h", "e", "a", "d",
      "i", "n", "g", "\"", ">">>
L_a_href == <<"<", "a", " ", "h", "r", "e", "f", "=", "\"">>
L_a_close == <<"<", "/", "a", ">">>
L_error_open == <<"{", "E", "R", "R", "O", "R", ":", " ">>
L_error_close == <<"}">>
L_backslash_n == <<"\\", "n">>
L_Type == <<"T", "y", "p", "e", " ">>
L_gO == <<"g", "O">>
L_toc ==
    <<" ", "t", "o", " ", "s", "e", "e", " ", "t", "h", "e", " ", "t", "a",
      "b", "l", "e", " ", "o", "f", " ", "c", "o", "n", "t", "e", "n", "t",
      "s">>
L_VIM == <<"V", "I", "M">>
L_NVIM == <<"N", "V", "I", "M">>
L_REFERENCE == <<"R", "E", "F", "E", "R", "E", "N", "C", "E">>
L_MANUAL == <<"M", "A", "N", "U", "A", "L">>
L_txt == <<".", "t", "x", "t">>
L_im == <<"i", "m">>
L_vi == <<"v", "i">>
L_ft_help == <<"f", "t", "=", "h", "e", "l", "p">>
L_filetype_help ==
    <<"f", "i", "l", "e", "t", "y", "p", "e", "=", "h", "e", "l", "p">>
L_local_additions ==
    <<"l", "o", "c", "a", "l", "-", "a", "d", "d", "i", "t", "i", "o", "n",
      "s">>

Letters ==
    {"a", "b", "c", "d", "e", "f", "g", "h", "i", "j", "k", "l", "m", "n",
     "o", "p", "q", "r", "s", "t", "u", "v", "w", "x", "y", "z",
     "A", "B", "C", "D", "E", "F", "G", "H", "I", "J", "K", "L", "M", "N",
     "O", "P", "Q", "R", "S", "T", "U", "V", "W", "X", "Y", "Z"}

\* char::is_whitespace on the characters of the model
Whitespace == {" ", "\t", "\n", "\r", "\f"}

----------------------------------------------------------------------------
\* ---- utils.rs ----

RECURSIVE trim_start(_)
trim_start(s) ==
    IF s # <<>> /\ Head(s) \in Whitespace THEN trim_start(Tail(s)) ELSE s

RECURSIVE trim_end(_)
trim_end(s) ==
    IF s # <<>> /\ s[Len(s)] \in Whitespace
    THEN trim_end(SubSeq(s, 1, Len(s) - 1))
    ELSE s

is_blank(s) == \A i \in 1..Len(s) : s[i] = "\t" \/ s[i] = " "

\* ignore_parse_error that does not know the asterisk (a faulty variant)
ignore_parse_error_NoAsterisk(s) == s # <<>> /\ s[1] \in {Backtick, "'", "|"}

ignore_parse_error(s) == s # <<>> /\ s[1] \in {Backtick, "'", "|", "*"}

\* every index is a character boundary: the characters of the model are
\* one byte wide
\* A str is a sequence of characters; these three stand for characters of
\* two, three and four bytes, every other character is one ASCII byte.
\* s.as_bytes(): the UTF-8 encoding of s
RECURSIVE as_bytes(_)
as_bytes(s) ==
    LET encode_utf8(c) ==
            CASE c = "U+00E9"  -> <<195, 169>>
              [] c = "U+20AC"  -> <<226, 130, 172>>
              [] c = "U+1F600" -> <<240, 159, 152, 128>>
              [] OTHER         -> <<97>>
    IN  IF s = <<>> THEN <<>> ELSE encode_utf8(Head(s)) \o as_bytes(Tail(s))

\* s.len(): the length of s in bytes
str_len(s) == Len(as_bytes(s))

is_utf8_char_boundary(b) ==
    LET as_i8 == IF b >= 128 THEN b - 256 ELSE b
    IN  as_i8 >= -64

\* s.as_bytes()[lower_bound..=index].iter().rposition(is_utf8_char_boundary):
\* the set of the position found, empty for None
rposition_boundary(s, lower_bound, index) ==
    LET bytes == as_bytes(s)
        found == {p \in 0..(index - lower_bound) :
                     is_utf8_char_boundary(bytes[lower_bound + p + 1])}
    IN  {p \in found : \A q \in found : q <= p}

\* floor_char_boundary with a window of three bytes (a faulty variant)
floor_char_boundary_Window3(s, index) ==
    IF index >= str_len(s) THEN str_len(s)
    ELSE LET lower_bound == IF index >= 2 THEN index - 2 ELSE 0
             new_index   == rposition_boundary(s, lower_bound, index)
         IN  IF new_index = {} THEN index ELSE lower_bound + Only(new_index)

\* unwrap_unchecked of None is undefined behaviour: the callers of this
\* definition draw the outcome of that case from every possible one
floor_char_boundary(s, index) ==
    IF index >= str_len(s) THEN str_len(s)
    ELSE LET lower_bound == IF index >= 3 THEN index - 3 ELSE 0
             new_index   == rposition_boundary(s, lower_bound, index)
         IN  lower_bound + Only(new_index)

\* &s[..end]: the characters that make the first `end` bytes of s; the
\* slice panics when `end` is inside a character or beyond the end
str_slice_to(s, end) ==
    LET ks == {k \in 0..Len(s) : str_len(SubSeq(s, 1, k)) = end}
    IN  IF ks = {} THEN <<"slice panicked">> ELSE SubSeq(s, 1, Only(ks))

truncate_str(s, cnt) == str_slice_to(s, floor_char_boundary(s, cnt))

\* the text at the end of a line of the debug dump (debug.rs 40, 50-54)
DebugText(node_text) ==
    LET escape_debug(c) ==
            CASE c = "\n" -> <<"\\", "n">>
              [] c = "\t" -> <<"\\", "t">>
              [] c = "\r" -> <<"\\", "r">>
              [] c = "\"" -> <<"\\", "\"">>
              [] c = "\\" -> <<"\\", "\\">>
              [] OTHER    -> <<c>>
        fmt_debug(t) ==
            <<"\"">> \o Concat([i \in 1..Len(t) |-> escape_debug(t[i])]) \o <<"\"">>
        is_too_long == str_len(node_text) > 10
    IN  IF is_too_long
        THEN fmt_debug(truncate_str(node_text, 10))
                 \o <<" ", "[", "t", "r", "i", "m", "m", "e", "d", "]">>
        ELSE fmt_debug(node_text)

ends_with(s, c) == s # <<>> /\ s[Len(s)] = c

\* fix_url that looks for the parenthesis at the end of the whole url (a
\* faulty variant)
fix_url_WholeUrl(url) ==
    LET r1 == IF ends_with(url, ".") THEN 1 ELSE 0
        r2 == IF ends_with(url, ")") THEN r1 + 1 ELSE r1
    IN  <<SubSeq(url, 1, Len(url) - r2), SubSeq(url, Len(url) - r2 + 1, Len(url))>>

\* fix_url returns <<head, trailing>>
fix_url(url) ==
    LET r1 == IF ends_with(url, ".") THEN 1 ELSE 0
        r2 == IF ends_with(SubSeq(url, 1, Len(url) - r1), ")") THEN r1 + 1 ELSE r1
    IN  <<SubSeq(url, 1, Len(url) - r2), SubSeq(url, Len(url) - r2 + 1, Len(url))>>

RECURSIVE repeat(_, _)
repeat(s, k) == IF k = 0 THEN <<>> ELSE s \o repeat(s, k - 1)

RECURSIVE replace(_, _, _)
\* str::replace of one character by a string
replace(s, c, by) ==
    IF s = <<>> THEN <<>>
    ELSE (IF Head(s) = c THEN by ELSE <<Head(s)>>) \o replace(Tail(s), c, by)

RECURSIVE SplitNewline(_)
\* the pieces of s between its newlines: one more than it has newlines
SplitNewline(s) ==
    IF \A i \in 1..Len(s) : s[i] # "\n" THEN <<s>>
    ELSE LET i == Min({j \in 1..Len(s) : s[j] = "\n"})
         IN  <<SubSeq(s, 1, i - 1)>> \o SplitNewline(SubSeq(s, i + 1, Len(s)))

\* str::lines: no last empty line, and the carriage return that precedes a
\* line's newline is dropped with the newline
lines(s) ==
    LET parts == SplitNewline(s)
        kept  == IF parts[Len(parts)] = <<>>
                 THEN SubSeq(parts, 1, Len(parts) - 1) ELSE parts
    IN  [i \in 1..Len(kept) |->
            IF i < Len(parts) /\ ends_with(kept[i], "\r")
            THEN SubSeq(kept[i], 1, Len(kept[i]) - 1) ELSE kept[i]]

RECURSIVE LeadingSpaces(_)
LeadingSpaces(s) ==
    IF s # <<>> /\ Head(s) = " " THEN 1 + LeadingSpaces(Tail(s)) ELSE 0

\* trim_indent that removes from each line its own leading spaces (a faulty
\* variant)
trim_indent_EachLine(s, tab_to_space_cnt) ==
    LET expanded == replace(s, "\t", repeat(<<" ">>, tab_to_space_cnt))
        ls       == lines(expanded)
    IN  join([i \in 1..Len(ls) |->
                 SubSeq(ls[i], LeadingSpaces(ls[i]) + 1, Len(ls[i]))],
             <<"\n">>)

trim_indent(s, tab_to_space_cnt) ==
    LET expanded   == replace(s, "\t", repeat(<<" ">>, tab_to_space_cnt))
        ls         == lines(expanded)
        remove_cnt == IF ls = <<>> THEN 0
                      ELSE Min({LeadingSpaces(ls[i]) : i \in 1..Len(ls)})
    IN  join([i \in 1..Len(ls) |-> SubSeq(ls[i], remove_cnt + 1, Len(ls[i]))],
             <<"\n">>)

OccursAt(s, lit, i) ==
    /\ i >= 1
    /\ i + Len(lit) - 1 <= Len(s)
    /\ \A k \in 1..Len(lit) : s[i + k - 1] = lit[k]

AllIn(s, from, to, S) == \A i \in from..to : s[i] \in S

NoNewline(s, from, to) == \A i \in from..to : s[i] # "\n"

\* Type .*gO.* to see the table of contents
TOC_RE(s) ==
    \E i, j, k \in 1..Len(s) :
        /\ OccursAt(s, L_Type, i)
        /\ j >= i + Len(L_Type) /\ OccursAt(s, L_gO, j)
        /\ k >= j + Len(L_gO) /\ OccursAt(s, L_toc, k)
        /\ NoNewline(s, i, k)

\* ^\s*N?VIM[ \t]*REFERENCE[ \t]*MANUAL
TITLE_LINE_RE(s) ==
    \E a, b, c \in 1..Len(s) :
        /\ AllIn(s, 1, a - 1, Whitespace)
        /\ \/ OccursAt(s, L_VIM, a) /\ AllIn(s, a + 3, b - 1, {" ", "\t"}) /\ b >= a + 3
           \/ OccursAt(s, L_NVIM, a) /\ AllIn(s, a + 4, b - 1, {" ", "\t"}) /\ b >= a + 4
        /\ OccursAt(s, L_REFERENCE, b)
        /\ c >= b + Len(L_REFERENCE)
        /\ AllIn(s, b + Len(L_REFERENCE), c - 1, {" ", "\t"})
        /\ OccursAt(s, L_MANUAL, c)

\* \s*\*?[a-zA-Z]+\.txt\*?\s+N?[vV]im\s*$
HELP_FIRST_LINE_RE(s) ==
    \E a, v \in 1..Len(s) :
        /\ s[a] \in Letters
        /\ OccursAt(s, L_txt, a + 1)
        /\ LET w == IF a + 5 <= Len(s) /\ s[a + 5] = "*" THEN a + 6 ELSE a + 5
           IN  \E x \in {w, a + 5} :
                 \E n \in {v, v - 1} :
                    /\ n > x
                    /\ AllIn(s, x, n - 1, Whitespace)
                    /\ n = v \/ s[n] = "N"
        /\ s[v] \in {"v", "V"}
        /\ OccursAt(s, L_im, v + 1)
        /\ AllIn(s, v + 3, Len(s), Whitespace)

\* ^\s*vim?:.*ft=help|^\s*vim?:.*filetype=help|[*>]local\-additions[*<]
MODELINE_RE(s) ==
    \/ \E a, h \in 1..Len(s) :
          /\ AllIn(s, 1, a - 1, Whitespace)
          /\ OccursAt(s, L_vi, a)
          /\ \E colon \in {a + 2, a + 3} :
                /\ colon <= Len(s) /\ s[colon] = ":"
                /\ colon = a + 2 \/ s[a + 2] = "m"
                /\ h > colon
                /\ NoNewline(s, colon + 1, h - 1)
          /\ OccursAt(s, L_ft_help, h) \/ OccursAt(s, L_filetype_help, h)
    \/ \E a \in 1..Len(s) :
          /\ s[a] \in {"*", ">"}
          /\ OccursAt(s, L_local_additions, a + 1)
          /\ a + 1 + Len(L_local_additions) <= Len(s)
          /\ s[a + 1 + Len(L_local_additions)] \in {"*", "<"}

is_noise(s) ==
    TOC_RE(s) \/ TITLE_LINE_RE(s) \/ HELP_FIRST_LINE_RE(s) \/ MODELINE_RE(s)

----------------------------------------------------------------------------
\* ---- Context (visit.rs) ----

RECURSIVE node_raw_text(_, _)
\* the span of the source a node covers: a leaf's own text, an inner node's
\* children separated by one space
node_raw_text(t, n) ==
    IF ChildSet(t, n) = {} THEN t.text[n]
    ELSE LET cs == Children(t, n)
         IN  join([i \in 1..Len(cs) |-> node_raw_text(t, cs[i])], <<" ">>)

node_clean_text(t, n) ==
    replace(replace(replace(node_raw_text(t, n), "&", L_amp), "<", L_lt), ">", L_gt)

has_children(t, n) == named_child_count(t, n) > 0

\* NodeType::from_str: the kind itself, "None" for a kind not of the vocabulary
node_type(t, n) == IF kind(t, n) \in Vocabulary THEN kind(t, n) ELSE "None"

----------------------------------------------------------------------------
\* ---- Visitor (visit.rs), HtmlVisitor (convert/html.rs), debug visitor ----
\* A visitor is a record [kind, old]; the renderer state (the current
\* language) is passed in and returned.  Every call returns
\* [out, cur, lang, calls, panic]: the output, the node the cursor is left on,
\* the state, the calls of visit made inside, and whether it panicked.

Returned(o, c, l, cs) == [out |-> o, cur |-> c, lang |-> l, calls |-> cs, panic |-> FALSE]

Panicked(c, l, cs) == [out |-> <<>>, cur |-> c, lang |-> l, calls |-> cs, panic |-> TRUE]

RECURSIVE visit(_, _, _, _, _)
RECURSIVE visit_children(_, _, _, _, _, _, _)
RECURSIVE VisitChildrenLoop(_, _, _, _, _, _, _, _, _)
RECURSIVE HtmlVisitor_visit(_, _, _, _, _)
RECURSIVE VisitChildrenStep(_, _, _, _, _, _, _, _, _, _)

\* the closure of DebugString::from_parser
DebugVisitor_visit(v, t, c, lang, lvl) == Returned(<<DebugLine(t, c)>>, c, lang, <<>>)

\* the match of HtmlVisitor::visit, vc the text computed before it: the
\* clean text of the node, or what visit_children_named returned
HtmlVisitor_match(v, t, he, vc) ==
    LET text == vc.out
        trimmed_text == trim_start(text)
        \* ctx.node_type() and ctx.node_raw_text() read the cursor where
        \* visit_children_named left it
        nt == node_type(t, vc.cur)
        Out(o) == Returned(o, vc.cur, vc.lang, vc.calls)
        todo == Panicked(vc.cur, vc.lang, vc.calls)
    IN  IF vc.panic THEN vc
        ELSE IF nt \in {"block", "code"} /\ is_blank(text) THEN Out(<<>>)
        ELSE IF nt \in {"column_heading", "codespan", "keycode", "tag"} /\ he
             THEN Out(text)
        ELSE IF nt \in {"h1", "h2", "h3"} /\ is_noise(text) THEN Out(<<>>)
        ELSE IF nt = "argument" THEN Out(L_code_open \o text \o L_code_close)
        ELSE IF nt = "block" /\ v.old
             THEN Out(L_old_help_para \o trim_end(text) \o L_div_close \o L_backslash_n)
        ELSE IF nt = "block"
             THEN Out(L_help_para \o L_backslash_n \o text \o L_backslash_n
                      \o L_div_close \o L_backslash_n)
        ELSE IF nt = "code"
             THEN LET trimmed == trim_end(trim_indent(text, 8))
                  IN  IF vc.lang # <<>>
                      THEN Returned(L_pre_code_language \o vc.lang[1] \o L_quote_gt
                                    \o trimmed \o L_code_pre_close,
                                    vc.cur, <<>>, vc.calls)
                      ELSE Out(L_pre_open \o trimmed \o L_pre_close)
        ELSE IF nt = "codeblock" THEN Out(text)
        ELSE IF nt = "codespan" /\ v.old THEN todo
        ELSE IF nt = "codespan" THEN Out(L_code_open \o trimmed_text \o L_code_close)
        ELSE IF nt = "column_heading"
             THEN Out(L_column_heading \o text \o L_div_close)
        ELSE IF nt \in {"h1", "h2", "h3"} THEN todo
        ELSE IF nt = "help_file" THEN Out(text)
        ELSE IF nt = "keycode" THEN Out(L_code_open \o trimmed_text \o L_code_close)
        ELSE IF nt = "language"
             THEN Returned(<<>>, vc.cur, <<node_raw_text(t, vc.cur)>>, vc.calls)
        ELSE IF nt \in {"line", "line_li", "optionlink", "tag", "taglink"} THEN todo
        ELSE IF nt = "uppercase_name" THEN Out(text)
        ELSE IF nt = "url"
             THEN LET fixed == fix_url(trimmed_text)
                  IN  Out(L_a_href \o fixed[1] \o L_quote_gt \o fixed[1] \o L_a_close
                          \o fixed[2])
        ELSE IF nt = "word" THEN Out(text)
        ELSE IF he /\ ignore_parse_error(trimmed_text) THEN Out(text)
        ELSE IF he THEN Out(L_error_open \o truncate_str(text, 10) \o L_error_close)
        ELSE Out(<<>>)

HtmlVisitor_visit(v, t, c, lang, lvl) ==
    LET he == has_error(t, c)
    IN  Only({HtmlVisitor_match(v, t, he, vc) :
                 vc \in {IF ~has_children(t, c) \/ he
                         THEN Returned(node_clean_text(t, c), c, lang, <<>>)
                         ELSE visit_children(v, t, c, lang, SPACE_STRING_JOINER,
                                             FALSE, lvl + 1)}})

\* Visitor::visit of the visitor v on the node the cursor c is on
visit(v, t, c, lang, lvl) ==
    IF v.kind = "debug" THEN DebugVisitor_visit(v, t, c, lang, lvl)
    ELSE HtmlVisitor_visit(v, t, c, lang, lvl)

\* the rest of an iteration of the loop of visit_children, r what the
\* visit of the child c returned
VisitChildrenStep(v, t, c, sep, unn, lvl, outs, cs, visits, r) ==
    LET cs2 == IF visits
               THEN cs \o <<[node |-> c, lvl |-> lvl, out |-> r.out]>> \o r.calls
               ELSE cs
        outs2 == IF visits THEN Append(outs, r.out) ELSE outs
        next == goto_next_sibling(t, r.cur)
    IN  IF r.panic THEN Panicked(r.cur, r.lang, cs2)
        ELSE IF next = 0 THEN Returned(join(outs2, sep), r.cur, r.lang, cs2)
        ELSE VisitChildrenLoop(v, t, next, r.lang, sep, unn, lvl, outs2, cs2)

\* the loop of visit_children, the cursor on the child c
VisitChildrenLoop(v, t, c, lang, sep, unn, lvl, outs, cs) ==
    LET visits == is_named(t, c) \/ unn
    IN  Only({VisitChildrenStep(v, t, c, sep, unn, lvl, outs, cs, visits, r) :
                 r \in {IF visits THEN visit(v, t, c, lang, lvl)
                        ELSE Returned(<<>>, c, lang, <<>>)}})

visit_children(v, t, c, lang, sep, unn, lvl) ==
    IF goto_first_child(t, c) = 0 THEN Returned(join(<<>>, sep), c, lang, <<>>)
    ELSE VisitChildrenLoop(v, t, goto_first_child(t, c), lang, sep, unn, lvl, <<>>, <<>>)

\* the joiner each from_parser passes to the walk
JoinerOf(v) == IF v.kind = "debug" THEN NEWLINE_STRING_JOINER ELSE SPACE_STRING_JOINER

----------------------------------------------------------------------------
\* ---- The typed builder (parser.rs) ----
\* A built value is [type, span, opt, children]: span is the node whose text
\* a terminal borrows (0 otherwise), opt holds the single or optional field
\* (text, name, language) as a sequence of at most one value, children the
\* sequence field; an enum value holds its variant's value as only child.

Ast(type, span, opt, children) ==
    [type |-> type, span |-> span, opt |-> opt, children |-> children]

NoAst == Ast("", 0, <<>>, <<>>)

NoError ==
    [tag |-> "", start |-> 0, name |-> "", node_kind |-> "",
     expected_kinds |-> <<>>, actual_kind |-> "", expected |-> 0, actual |-> 0]

MissingField(start_, name, node_kind) ==
    [NoError EXCEPT !.tag = "MissingField", !.start = start_, !.name = name,
                    !.node_kind = node_kind]

TooManyChildren(start_, expected, actual, node_kind) ==
    [NoError EXCEPT !.tag = "TooManyChildren", !.start = start_,
                    !.expected = expected, !.actual = actual,
                    !.node_kind = node_kind]

TypeError(start_, expected_kinds, actual_kind) ==
    [NoError EXCEPT !.tag = "TypeError", !.start = start_,
                    !.expected_kinds = expected_kinds,
                    !.actual_kind = actual_kind]

\* A call returns [ok, ast, err, cur, rep]: Ok(ast) or Err(err), the node the
\* cursor is left on, and the invalid nodes reported during the call.
Ok(ast, cur, rep) == [ok |-> TRUE, ast |-> ast, err |-> NoError, cur |-> cur, rep |-> rep]
Err(err, cur, rep) == [ok |-> FALSE, ast |-> NoAst, err |-> err, cur |-> cur, rep |-> rep]

NoResult == [ok |-> FALSE, ast |-> NoAst, err |-> NoError, cur |-> 0, rep |-> <<>>]

\* InvalidNode::from_node_ref: <<>> is None
InvalidNode_from_node_ref(t, n) ==
    IF is_error(t, n) THEN <<[tag |-> "Error", start |-> start_position(t, n)]>>
    ELSE IF is_missing(t, n)
    THEN <<[tag |-> "Missing", start |-> start_position(t, n)]>>
    ELSE <<>>

\* the instances of parse! @many: the kind, the field and the child type
ManyOf ==
    [HelpFile      |-> [kind |-> "help_file", field |-> "children", child |-> "Block"],
     Block         |-> [kind |-> "block", field |-> "children", child |-> "BlockChild"],
     Line          |-> [kind |-> "line", field |-> "children", child |-> "LineChild"],
     LineLi        |-> [kind |-> "line_li", field |-> "children", child |-> "LineLiChild"],
     ColumnHeading |-> [kind |-> "column_heading", field |-> "name", child |-> "HChild"],
     H1            |-> [kind |-> "h1", field |-> "children", child |-> "HChild"],
     H2            |-> [kind |-> "h2", field |-> "children", child |-> "HChild"]]

\* the instances of parse! @single
SingleOf ==
    [Argument   |-> [kind |-> "argument", field |-> "text", child |-> "Word"],
     Codespan   |-> [kind |-> "codespan", field |-> "text", child |-> "Word"],
     Optionlink |-> [kind |-> "optionlink", field |-> "text", child |-> "Word"],
     Tag        |-> [kind |-> "tag", field |-> "text", child |-> "Word"],
     Taglink    |-> [kind |-> "taglink", field |-> "text", child |-> "Word"],
     Url        |-> [kind |-> "url", field |-> "text", child |-> "Word"]]

\* the enums: the kinds of the variants, in the order of the macro call, and
\* the type each variant wraps
EnumOf ==
    [BlockChild  |-> <<"line", "line_li">>,
     LineChild   |-> <<"argument", "codeblock", "codespan", "column_heading",
                       "h1", "h2", "h3", "keycode", "optionlink", "tag",
                       "taglink", "url", "word">>,
     LineLiChild |-> <<"codeblock", "line">>,
     HChild      |-> <<"argument", "codespan", "keycode", "optionlink", "tag",
                       "taglink", "url", "word">>]

TerminalOf ==
    [Keycode |-> "keycode", Language |-> "language",
     UppercaseName |-> "uppercase_name", Word |-> "word"]

\* the type built from a node of the given kind
TypeOfKind ==
    [argument |-> "Argument", block |-> "Block", codeblock |-> "Codeblock",
     codespan |-> "Codespan", column_heading |-> "ColumnHeading", h1 |-> "H1",
     h2 |-> "H2", h3 |-> "H3", help_file |-> "HelpFile", keycode |-> "Keycode",
     language |-> "Language", line |-> "Line", line_li |-> "LineLi",
     optionlink |-> "Optionlink", tag |-> "Tag", taglink |-> "Taglink",
     uppercase_name |-> "UppercaseName", url |-> "Url", word |-> "Word"]

Constructors ==
    DOMAIN ManyOf \cup DOMAIN SingleOf \cup DOMAIN EnumOf \cup DOMAIN TerminalOf
        \cup {"Codeblock", "H3"}

\* concat_kinds! that keeps the first kind only (a faulty variant)
concat_kinds_FirstOnly(name) ==
    IF name \in DOMAIN ManyOf THEN <<ManyOf[name].kind>>
    ELSE IF name \in DOMAIN SingleOf THEN <<SingleOf[name].kind>>
    ELSE IF name \in DOMAIN EnumOf THEN <<EnumOf[name][1]>>
    ELSE IF name \in DOMAIN TerminalOf THEN <<TerminalOf[name]>>
    ELSE IF name = "Codeblock" THEN <<"codeblock">>
    ELSE <<"h3">>

\* concat_kinds!: the kinds a constructor accepts, in the order of its arms
concat_kinds(name) ==
    IF name \in DOMAIN ManyOf THEN <<ManyOf[name].kind>>
    ELSE IF name \in DOMAIN SingleOf THEN <<SingleOf[name].kind>>
    ELSE IF name \in DOMAIN EnumOf THEN EnumOf[name]
    ELSE IF name \in DOMAIN TerminalOf THEN <<TerminalOf[name]>>
    ELSE IF name = "Codeblock" THEN <<"codeblock">>
    ELSE <<"h3">>

Range(f) == {f[i] : i \in DOMAIN f}

RECURSIVE parse(_, _, _)
RECURSIVE ManyLoop(_, _, _, _, _)
RECURSIVE SingleLoop(_, _, _, _, _, _)
RECURSIVE CodeblockLoop(_, _, _, _, _, _)
RECURSIVE H3Loop(_, _, _, _, _, _)

\* ManyLoop that leaves out a child whose build fails (a faulty variant)
ManyLoop_SwallowsFailure(child, t, c, children, rep) ==
    LET invalid == InvalidNode_from_node_ref(t, c)
        builds  == invalid = <<>> /\ is_named(t, c)
        r       == IF builds THEN parse(child, t, c) ELSE Ok(NoAst, c, <<>>)
        rep2    == rep \o invalid \o r.rep
        children2 == IF builds /\ r.ok THEN Append(children, r.ast) ELSE children
        next    == goto_next_sibling(t, c)
    IN  IF next = 0 THEN Ok(Ast("", 0, <<>>, children2), c, rep2)
        ELSE ManyLoop(child, t, next, children2, rep2)

\* ManyLoop that puts each child before the ones built so far (a faulty
\* variant)
ManyLoop_Prepends(child, t, c, children, rep) ==
    LET invalid == InvalidNode_from_node_ref(t, c)
        builds  == invalid = <<>> /\ is_named(t, c)
        r       == IF builds THEN parse(child, t, c) ELSE Ok(NoAst, c, <<>>)
        rep2    == rep \o invalid \o r.rep
        children2 == IF builds THEN <<r.ast>> \o children ELSE children
        next    == goto_next_sibling(t, r.cur)
    IN  IF ~r.ok THEN Err(r.err, r.cur, rep2)
        ELSE IF next = 0 THEN Ok(Ast("", 0, <<>>, children2), r.cur, rep2)
        ELSE ManyLoop(child, t, next, children2, rep2)

\* ManyLoop without the check of InvalidNode::from_node_ref: every named
\* child is built (a faulty variant)
ManyLoop_BuildsMalformed(child, t, c, children, rep) ==
    LET builds  == is_named(t, c)
        r       == IF builds THEN parse(child, t, c) ELSE Ok(NoAst, c, <<>>)
        rep2    == rep \o r.rep
        children2 == IF builds THEN Append(children, r.ast) ELSE children
        next    == goto_next_sibling(t, r.cur)
    IN  IF ~r.ok THEN Err(r.err, r.cur, rep2)
        ELSE IF next = 0 THEN Ok(Ast("", 0, <<>>, children2), r.cur, rep2)
        ELSE ManyLoop(child, t, next, children2, rep2)

\* the loop of parse! @many, the cursor on the child c
ManyLoop(child, t, c, children, rep) ==
    LET invalid == InvalidNode_from_node_ref(t, c)
        builds  == invalid = <<>> /\ is_named(t, c)
        r       == IF builds THEN parse(child, t, c) ELSE Ok(NoAst, c, <<>>)
        rep2    == rep \o invalid \o r.rep
        children2 == IF builds THEN Append(children, r.ast) ELSE children
        next    == goto_next_sibling(t, r.cur)
    IN  IF ~r.ok THEN Err(r.err, r.cur, rep2)
        ELSE IF next = 0 THEN Ok(Ast("", 0, <<>>, children2), r.cur, rep2)
        ELSE ManyLoop(child, t, next, children2, rep2)

\* parse! @many without the goto_parent that follows the loop (a faulty
\* variant)
parse_many_StaysBelow(name, t, c) ==
    LET first == goto_first_child(t, c)
        loop  == ManyLoop(ManyOf[name].child, t, first, <<>>, <<>>)
    IN  IF first = 0 THEN Ok(Ast(name, 0, <<>>, <<>>), c, <<>>)
        ELSE IF ~loop.ok THEN loop
        ELSE Ok(Ast(name, 0, <<>>, loop.ast.children), loop.cur, loop.rep)

\* parse! @many
parse_many(name, t, c) ==
    LET first == goto_first_child(t, c)
        loop  == ManyLoop(ManyOf[name].child, t, first, <<>>, <<>>)
    IN  IF first = 0 THEN Ok(Ast(name, 0, <<>>, <<>>), c, <<>>)
        ELSE IF ~loop.ok THEN loop
        ELSE Ok(Ast(name, 0, <<>>, loop.ast.children),
                goto_parent(t, loop.cur), loop.rep)

\* SingleLoop without the check of InvalidNode::from_node_ref: every named
\* child is counted (a faulty variant)
SingleLoop_CountsMalformed(child, t, c, field, cnt, rep) ==
    LET counts  == is_named(t, c)
        cnt2    == IF counts THEN cnt + 1 ELSE cnt
        builds  == counts /\ cnt2 = 1
        r       == IF builds THEN parse(child, t, c) ELSE Ok(NoAst, c, <<>>)
        rep2    == rep \o r.rep
        field2  == IF builds THEN <<r.ast>> ELSE field
        next    == goto_next_sibling(t, r.cur)
    IN  IF ~r.ok THEN Err(r.err, r.cur, rep2)
        ELSE IF next = 0 THEN Ok(Ast("", cnt2, field2, <<>>), r.cur, rep2)
        ELSE SingleLoop(child, t, next, field2, cnt2, rep2)

\* the loop of parse! @single; the result holds the field in opt and cnt in
\* span
SingleLoop(child, t, c, field, cnt, rep) ==
    LET invalid == InvalidNode_from_node_ref(t, c)
        counts  == invalid = <<>> /\ is_named(t, c)
        cnt2    == IF counts THEN cnt + 1 ELSE cnt
        builds  == counts /\ cnt2 = 1
        r       == IF builds THEN parse(child, t, c) ELSE Ok(NoAst, c, <<>>)
        rep2    == rep \o invalid \o r.rep
        field2  == IF builds THEN <<r.ast>> ELSE field
        next    == goto_next_sibling(t, r.cur)
    IN  IF ~r.ok THEN Err(r.err, r.cur, rep2)
        ELSE IF next = 0 THEN Ok(Ast("", cnt2, field2, <<>>), r.cur, rep2)
        ELSE SingleLoop(child, t, next, field2, cnt2, rep2)

\* parse! @single without the check of cnt > 1 (a faulty variant)
parse_single_NoCountCheck(name, t, c) ==
    LET first == goto_first_child(t, c)
        loop  == SingleLoop(SingleOf[name].child, t, first, <<>>, 0, <<>>)
        up    == goto_parent(t, loop.cur)
        missing == MissingField(start_position(t, c), SingleOf[name].field, kind(t, c))
    IN  IF first = 0 THEN Err(missing, c, <<>>)
        ELSE IF ~loop.ok THEN loop
        ELSE IF loop.ast.opt = <<>> THEN Err(missing, up, loop.rep)
        ELSE Ok(Ast(name, 0, loop.ast.opt, <<>>), up, loop.rep)

\* parse! @single
parse_single(name, t, c) ==
    LET first == goto_first_child(t, c)
        loop  == SingleLoop(SingleOf[name].child, t, first, <<>>, 0, <<>>)
        cnt   == loop.ast.span
        up    == goto_parent(t, loop.cur)
        missing == MissingField(start_position(t, c), SingleOf[name].field, kind(t, c))
    IN  IF first = 0 THEN Err(missing, c, <<>>)
        ELSE IF ~loop.ok THEN loop
        ELSE IF cnt > 1
        THEN Err(TooManyChildren(start_position(t, c), 1, cnt, kind(t, c)),
                 up, loop.rep)
        ELSE IF loop.ast.opt = <<>> THEN Err(missing, up, loop.rep)
        ELSE Ok(Ast(name, 0, loop.ast.opt, <<>>), up, loop.rep)

\* CodeblockLoop that never stops looking for the language (a faulty variant)
CodeblockLoop_KeepsLooking(t, c, looking_for_language, language_, children, rep) ==
    LET invalid == InvalidNode_from_node_ref(t, c)
        builds  == invalid = <<>> /\ is_named(t, c)
        asLanguage == parse("Language", t, c)
        isLanguage == builds /\ looking_for_language /\ asLanguage.ok
        r       == IF ~builds THEN Ok(NoAst, c, <<>>)
                   ELSE IF isLanguage THEN asLanguage
                   ELSE parse("Line", t, c)
        rep2    == rep \o invalid \o r.rep
        language2 == IF isLanguage THEN <<r.ast>> ELSE language_
        children2 == IF builds /\ ~isLanguage THEN Append(children, r.ast)
                     ELSE children
        next    == goto_next_sibling(t, r.cur)
    IN  IF ~r.ok THEN Err(r.err, r.cur, rep2)
        ELSE IF next = 0 THEN Ok(Ast("", 0, language2, children2), r.cur, rep2)
        ELSE CodeblockLoop(t, next, looking_for_language, language2, children2, rep2)

\* the loop of Codeblock::parse
CodeblockLoop(t, c, looking_for_language, language_, children, rep) ==
    LET invalid == InvalidNode_from_node_ref(t, c)
        builds  == invalid = <<>> /\ is_named(t, c)
        asLanguage == parse("Language", t, c)
        isLanguage == builds /\ looking_for_language /\ asLanguage.ok
        r       == IF ~builds THEN Ok(NoAst, c, <<>>)
                   ELSE IF isLanguage THEN asLanguage
                   ELSE parse("Line", t, IF looking_for_language
                                         THEN asLanguage.cur ELSE c)
        rep2    == rep \o invalid \o r.rep
        language2 == IF isLanguage THEN <<r.ast>> ELSE language_
        children2 == IF builds /\ ~isLanguage THEN Append(children, r.ast)
                     ELSE children
        looking2 == looking_for_language /\ ~builds
        next    == goto_next_sibling(t, r.cur)
    IN  IF ~r.ok THEN Err(r.err, r.cur, rep2)
        ELSE IF next = 0 THEN Ok(Ast("", 0, language2, children2), r.cur, rep2)
        ELSE CodeblockLoop(t, next, looking2, language2, children2, rep2)

\* Codeblock::parse
parse_codeblock(name, t, c) ==
    LET first == goto_first_child(t, c)
        loop  == CodeblockLoop(t, first, TRUE, <<>>, <<>>, <<>>)
    IN  IF first = 0 THEN Ok(Ast(name, 0, <<>>, <<>>), c, <<>>)
        ELSE IF ~loop.ok THEN loop
        ELSE Ok(Ast(name, 0, loop.ast.opt, loop.ast.children),
                goto_parent(t, loop.cur), loop.rep)

\* H3Loop that never stops looking for the name (a faulty variant)
H3Loop_KeepsLooking(t, c, looking_for_name, name_, children, rep) ==
    LET invalid == InvalidNode_from_node_ref(t, c)
        builds  == invalid = <<>> /\ is_named(t, c)
        r       == IF ~builds THEN Ok(NoAst, c, <<>>)
                   ELSE IF looking_for_name THEN parse("UppercaseName", t, c)
                   ELSE parse("HChild", t, c)
        rep2    == rep \o invalid \o r.rep
        name2   == IF builds /\ looking_for_name THEN <<r.ast>> ELSE name_
        children2 == IF builds /\ ~looking_for_name THEN Append(children, r.ast)
                     ELSE children
        next    == goto_next_sibling(t, r.cur)
    IN  IF ~r.ok THEN Err(r.err, r.cur, rep2)
        ELSE IF next = 0 THEN Ok(Ast("", 0, name2, children2), r.cur, rep2)
        ELSE H3Loop(t, next, looking_for_name, name2, children2, rep2)

\* the loop of H3::parse
H3Loop(t, c, looking_for_name, name_, children, rep) ==
    LET invalid == InvalidNode_from_node_ref(t, c)
        builds  == invalid = <<>> /\ is_named(t, c)
        r       == IF ~builds THEN Ok(NoAst, c, <<>>)
                   ELSE IF looking_for_name THEN parse("UppercaseName", t, c)
                   ELSE parse("HChild", t, c)
        rep2    == rep \o invalid \o r.rep
        name2   == IF builds /\ looking_for_name THEN <<r.ast>> ELSE name_
        children2 == IF builds /\ ~looking_for_name THEN Append(children, r.ast)
                     ELSE children
        looking2 == looking_for_name /\ ~builds
        next    == goto_next_sibling(t, r.cur)
    IN  IF ~r.ok THEN Err(r.err, r.cur, rep2)
        ELSE IF next = 0 THEN Ok(Ast("", 0, name2, children2), r.cur, rep2)
        ELSE H3Loop(t, next, looking2, name2, children2, rep2)

\* H3::parse reporting the field of parse! @single (a faulty variant)
parse_h3_FieldText(name, t, c) ==
    LET first == goto_first_child(t, c)
        loop  == H3Loop(t, first, TRUE, <<>>, <<>>, <<>>)
        up    == goto_parent(t, loop.cur)
        missing == MissingField(start_position(t, c), "text", kind(t, c))
    IN  IF first = 0 THEN Err(missing, c, <<>>)
        ELSE IF ~loop.ok THEN loop
        ELSE IF loop.ast.opt = <<>> THEN Err(missing, up, loop.rep)
        ELSE Ok(Ast(name, 0, loop.ast.opt, loop.ast.children), up, loop.rep)

\* H3::parse
parse_h3(name, t, c) ==
    LET first == goto_first_child(t, c)
        loop  == H3Loop(t, first, TRUE, <<>>, <<>>, <<>>)
        up    == goto_parent(t, loop.cur)
        missing == MissingField(start_position(t, c), "name", kind(t, c))
    IN  IF first = 0 THEN Err(missing, c, <<>>)
        ELSE IF ~loop.ok THEN loop
        ELSE IF loop.ast.opt = <<>> THEN Err(missing, up, loop.rep)
        ELSE Ok(Ast(name, 0, loop.ast.opt, loop.ast.children), up, loop.rep)

\* an arm of an enum: the variant's type is built and wrapped
parse_enum(name, t, c) ==
    LET r == parse(TypeOfKind[kind(t, c)], t, c)
    IN  IF ~r.ok THEN r ELSE Ok(Ast(name, 0, <<>>, <<r.ast>>), r.cur, r.rep)

\* Keycode, Language, UppercaseName, Word: the text of the node
parse_terminal(name, t, c) == Ok(Ast(name, c, <<>>, <<>>), c, <<>>)

\* the arm of the constructor that matches the kind of the node
parse_arm(name, t, c) ==
    IF name \in DOMAIN ManyOf THEN parse_many(name, t, c)
    ELSE IF name \in DOMAIN SingleOf THEN parse_single(name, t, c)
    ELSE IF name \in DOMAIN EnumOf THEN parse_enum(name, t, c)
    ELSE IF name \in DOMAIN TerminalOf THEN parse_terminal(name, t, c)
    ELSE IF name = "Codeblock" THEN parse_codeblock(name, t, c)
    ELSE parse_h3(name, t, c)

\* parse! @body: `name`::parse(src, cursor) with the cursor on node c
parse(name, t, c) ==
    IF kind(t, c) \in Range(concat_kinds(name))
    THEN parse_arm(name, t, c)
    ELSE Err(TypeError(start_position(t, c), concat_kinds(name), kind(t, c)), c, <<>>)

----------------------------------------------------------------------------
\* ---- The trees the model runs on ----

\* parent functions of the ordered trees of n nodes in pre-order numbering:
\* the parent of node i is node i - 1 or one of its ancestors
TreeShapes(n) ==
    {p \in [1..n -> 0..(n - 1)] :
        /\ p[1] = 0
        /\ \A i \in 2..n :
              /\ p[i] \in 1..(i - 1)
              /\ IsAncestorOrSelf([parent |-> p], p[i], i - 1)}

\* A sort of node is [kind, missing].  A missing node is a leaf of no width.
Sort(k) == [kind |-> k, missing |-> FALSE]
MissingSort(k) == [kind |-> k, missing |-> TRUE]

\* the tree of shape p whose node i has the sort srt[i] and, when it is a
\* leaf that is not missing, the text txt[i]
MkTree(n, p, srt, txt) ==
    [n |-> n, parent |-> p,
     kind |-> [i \in 1..n |-> srt[i].kind],
     missing |-> [i \in 1..n |-> srt[i].missing],
     text |-> [i \in 1..n |->
                 IF srt[i].missing \/ (\E c \in 1..n : p[c] = i)
                 THEN <<>> ELSE txt[i]]]

\* the root of a tree is a named node that is not missing; an anonymous
\* node is a token and a missing node is inserted by recovery, so both are
\* leaves
WellFormed(t) ==
    /\ is_named(t, 1) /\ ~is_missing(t, 1)
    /\ \A i \in Nodes(t) :
          (is_missing(t, i) \/ ~is_named(t, i)) => ChildSet(t, i) = {}

\* t is one of the trees of at most max nodes whose root has a sort of
\* rootSorts, whose other nodes have sorts of sorts, with leaf texts of texts
IsTreeOf(t, max, rootSorts, sorts, texts) ==
    \E n \in 1..max :
        \E p \in TreeShapes(n) :
            \E root \in rootSorts :
                \E rest \in [2..n -> sorts] :
                    \E txt \in [1..n -> texts] :
                        LET srt == [i \in 1..n |-> IF i = 1 THEN root ELSE rest[i]]
                        IN  /\ t = MkTree(n, p, srt, txt)
                            /\ WellFormed(MkTree(n, p, srt, txt))

\* the same with at most MaxNodes nodes
IsTree(t, rootSorts, sorts, texts) == IsTreeOf(t, MaxNodes, rootSorts, sorts, texts)

\* the node sorts and leaf texts of the trees that are walked
WalkSorts ==
    {Sort("block"), Sort("word"), Sort("line"), Sort("*"), Sort("ERROR"),
     MissingSort("word")}
WalkTexts == {<<"a">>}

Visitors ==
    {[kind |-> "debug", old |-> FALSE], [kind |-> "html", old |-> FALSE],
     [kind |-> "html", old |-> TRUE]}

----------------------------------------------------------------------------
\* ---- Visitor::visit_all and Visitor::visit_children as operations ----

\* the walk visit_all_named starts: the cursor of tree.walk() on the root,
\* `outputs` of one empty list, a visitor in the state it is created in
NewWalk(t, v) ==
    [tree |-> t, visitor |-> v, unnamed |-> FALSE, cursor |-> 1,
     outputs |-> << <<>> >>, language |-> <<>>, calls |-> <<>>, pc |-> "loop",
     ret |-> "", result |-> <<>>]

\* no second walk
NoWalk ==
    [NewWalk(MkTree(1, <<0>>, <<Sort("word")>>, << <<>> >>),
             [kind |-> "debug", old |-> FALSE]) EXCEPT !.pc = "none"]

Init ==
    /\ IsTree(tree, WalkSorts, WalkSorts, WalkTexts)
    /\ op \in {"visit_all", "visit_children"}
    /\ visitor \in Visitors
    /\ unnamed \in BOOLEAN
    /\ entry = ""
    /\ start \in IF op = "visit_all" THEN {1} ELSE Nodes(tree)
    /\ cursor = start
    /\ outputs = IF op = "visit_all" THEN << <<>> >> ELSE <<>>
    /\ language = <<>>
    /\ calls = <<>>
    /\ reports = <<>>
    /\ pc = IF op = "visit_all" THEN "loop" ELSE "call"
    /\ ret = ""
    /\ result = <<>>
    /\ presult = NoResult
    /\ other = NoWalk
    /\ arg = <<>>
    /\ value = <<>>

\* replace the last element of a non-empty sequence
PushLast(outs, o) == [outs EXCEPT ![Len(outs)] = Append(@, o)]

\* The state of one walk: the tree and the cursor on it, the visitor and
\* its state, the local variables of visit_all.
Me ==
    [tree |-> tree, visitor |-> visitor, unnamed |-> unnamed, cursor |-> cursor,
     outputs |-> outputs, language |-> language, calls |-> calls, pc |-> pc,
     ret |-> ret, result |-> result]

\* the walk w is the state of the walk after the step
Becomes(w) ==
    /\ tree' = w.tree /\ visitor' = w.visitor /\ unnamed' = w.unnamed
    /\ cursor' = w.cursor /\ outputs' = w.outputs /\ language' = w.language
    /\ calls' = w.calls /\ pc' = w.pc /\ ret' = w.ret /\ result' = w.result

\* the rest of an iteration of the outer loop of visit_all, r what the visit
\* of the node returned
visit_all_moves(w, visits, r) ==
    LET child == goto_first_child(w.tree, r.cur)
        sibling == goto_next_sibling(w.tree, r.cur)
        pushed == IF visits THEN PushLast(w.outputs, r.out) ELSE w.outputs
        cs == IF visits
              THEN w.calls \o <<[node |-> w.cursor, lvl |-> 0, out |-> r.out]>>
                           \o r.calls
              ELSE w.calls
    IN  IF r.panic
        THEN [w EXCEPT !.calls = cs, !.language = r.lang, !.pc = "panic",
                       !.cursor = r.cur]
        ELSE IF child # 0
        THEN [w EXCEPT !.calls = cs, !.language = r.lang, !.pc = "loop",
                       !.cursor = child, !.outputs = Append(pushed, <<>>)]
        ELSE IF sibling # 0
        THEN [w EXCEPT !.calls = cs, !.language = r.lang, !.pc = "loop",
                       !.cursor = sibling, !.outputs = pushed]
        ELSE [w EXCEPT !.calls = cs, !.language = r.lang, !.pc = "climb",
                       !.cursor = r.cur, !.outputs = pushed]

\* One iteration of the outer loop of visit_all: visit the node when it is
\* named (or unnamed nodes are asked for), then move to the first child, or
\* else the next sibling, or else start to climb.
visit_all_loop(w) ==
    LET visits == is_named(w.tree, w.cursor) \/ w.unnamed
    IN  Only({visit_all_moves(w, visits, r) :
                 r \in {IF visits
                        THEN visit(w.visitor, w.tree, w.cursor, w.language, 0)
                        ELSE Returned(<<>>, w.cursor, w.language, <<>>)}})

\* One iteration of the inner loop of visit_all: go to the parent (return the
\* join of the first list when there is none), join the list of the depth
\* left into the list above (return it when there is none above), then leave
\* the loop when there is a next sibling.
visit_all_climb(w) ==
    LET up == goto_parent(w.tree, w.cursor)
        sep == JoinerOf(w.visitor)
        output == join(w.outputs[Len(w.outputs)], sep)
        popped == SubSeq(w.outputs, 1, Len(w.outputs) - 1)
        sibling == goto_next_sibling(w.tree, up)
    IN  IF up = 0
        THEN [w EXCEPT !.pc = "done", !.ret = "root",
                       !.result = join(w.outputs[1], sep)]
        ELSE IF popped = <<>>
        THEN [w EXCEPT !.pc = "done", !.ret = "early", !.result = output,
                       !.cursor = up, !.outputs = popped]
        ELSE [w EXCEPT !.outputs = PushLast(popped, output),
                       !.cursor = IF sibling # 0 THEN sibling ELSE up,
                       !.pc = IF sibling # 0 THEN "loop" ELSE "climb"]

VisitAllLoop ==
    /\ op = "visit_all" /\ pc = "loop"
    /\ \E w \in {visit_all_loop(Me)} : Becomes(w)
    /\ UNCHANGED <<op, entry, start, reports, presult, other, arg, value>>

VisitAllClimb ==
    /\ op = "visit_all" /\ pc = "climb"
    /\ \E w \in {visit_all_climb(Me)} : Becomes(w)
    /\ UNCHANGED <<op, entry, start, reports, presult, other, arg, value>>

\* A call of visit_children on the node the cursor is on.
VisitChildrenCall ==
    /\ op = "visit_children" /\ pc = "call"
    /\ \E r \in {visit_children(visitor, tree, cursor, language,
                                 JoinerOf(visitor), unnamed, 0)} :
           /\ pc' = IF r.panic THEN "panic" ELSE "done"
           /\ cursor' = r.cur
           /\ language' = r.lang
           /\ calls' = r.calls
           /\ result' = r.out
    /\ UNCHANGED <<tree, op, visitor, unnamed, entry, start, outputs, reports, ret,
                   presult, other, arg, value>>

Next == VisitAllLoop \/ VisitAllClimb \/ VisitChildrenCall

Spec == Init /\ [][Next]_vars

----------------------------------------------------------------------------
\* ---- Claims about the walks ----

RECURSIVE PreOrder(_, _)
\* the nodes of the subtree of n: n, then the subtrees of its children from
\* left to right
PreOrder(t, n) ==
    LET cs == Children(t, n)
    IN  <<n>> \o Concat([i \in 1..Len(cs) |-> PreOrder(t, cs[i])])

Visited(t, n, unn) == is_named(t, n) \/ unn

\* the nodes of the calls of visit made by the operation itself, in order
DirectCalls == SelectSeq(calls, LAMBDA c : c.lvl = 0)
DirectNodes == [i \in 1..Len(DirectCalls) |-> DirectCalls[i].node]
DirectOutputs == [i \in 1..Len(DirectCalls) |-> DirectCalls[i].out]

\* the nodes of all the calls of visit, the nested ones too, in the order of
\* the calls
AllNodes == [i \in 1..Len(calls) |-> calls[i].node]

\* C1: when visit_all started at the root has returned, the nodes visit was
\* called on are the named nodes of the tree (all nodes when unnamed is set),
\* each once, in pre-order.
C1_VisitAllPreOrder ==
    (op = "visit_all" /\ pc = "done") =>
        AllNodes = SelectSeq(PreOrder(tree, 1),
                             LAMBDA n : Visited(tree, n, unnamed))

\* C2: when visit_children has returned, the nodes it called visit on are
\* the immediate children of the context node (the named ones unless unnamed
\* is set), left to right, and the value returned is the join of the outputs
\* of these calls; this for the debug visitor and for HtmlVisitor.
C2_VisitChildren ==
    (op = "visit_children" /\ pc = "done") =>
        /\ DirectNodes = SelectSeq(Children(tree, start),
                                   LAMBDA n : Visited(tree, n, unnamed))
        /\ result = join(DirectOutputs, JoinerOf(visitor))

RECURSIVE DebugLines(_)
\* the lines of a debug dump, as str::lines gives them: a newline ends a
\* line, and a final newline starts no other line
DebugLines(s) ==
    IF s = <<>> THEN <<>>
    ELSE IF \A i \in 1..Len(s) : s[i] # DebugNewline THEN <<s>>
    ELSE LET i == Min({j \in 1..Len(s) : s[j] = DebugNewline})
         IN  <<SubSeq(s, 1, i - 1)>> \o DebugLines(SubSeq(s, i + 1, Len(s)))

NamedPreOrder(t) == SelectSeq(PreOrder(t, 1), LAMBDA n : is_named(t, n))

IsDebugDump == op = "visit_all" /\ visitor.kind = "debug" /\ ~unnamed

\* C3: the lines of the dump of DebugString::from_parser are the lines of
\* the named nodes, one each, in pre-order, indented by 4 spaces per
\* ancestor; there is no other line, so no blank one.
C3_DebugDump ==
    (IsDebugDump /\ pc = "done") =>
        DebugLines(result) =
            [i \in 1..Len(NamedPreOrder(tree)) |->
                <<DebugLine(tree, NamedPreOrder(tree)[i])>>]

----------------------------------------------------------------------------
\* ---- The typed constructors as an operation ----

\* the node sorts of the trees that are built: any sort at the root, these
\* below it
ParseRootSorts ==
    {Sort(k) : k \in Vocabulary} \cup {Sort("*"), Sort("ERROR"), MissingSort("word")}
ParseSorts ==
    {Sort("line"), Sort("language"), Sort("uppercase_name"), Sort("word"),
     Sort("*"), Sort("ERROR"), MissingSort("word")}
ParseTexts == {<<"a">>}

\* `entry`::parse is called with the cursor on the root; a constructor that
\* does not accept the kind of the root is called on a bare node
InitParse ==
    /\ IsTree(tree, ParseRootSorts, ParseSorts, ParseTexts)
    /\ op = "parse"
    /\ visitor = [kind |-> "debug", old |-> FALSE]
    /\ unnamed = FALSE
    /\ entry \in Constructors
    /\ kind(tree, 1) \in Range(concat_kinds(entry)) \/ tree.n = 1
    /\ start = 1
    /\ cursor = start
    /\ outputs = <<>>
    /\ language = <<>>
    /\ calls = <<>>
    /\ reports = <<>>
    /\ pc = "call"
    /\ ret = ""
    /\ result = <<>>
    /\ presult = NoResult
    /\ other = NoWalk
    /\ arg = <<>>
    /\ value = <<>>

\* A call of `entry`::parse(src, cursor).
ParseCall ==
    /\ op = "parse" /\ pc = "call"
    /\ LET r == parse(entry, tree, cursor)
       IN  /\ presult' = r
           /\ cursor' = r.cur
           /\ reports' = reports \o r.rep
           /\ pc' = "done"
    /\ UNCHANGED <<tree, op, visitor, unnamed, entry, start, outputs, language,
                   calls, ret, result, other, arg, value>>

NextParse == ParseCall

SpecParse == InitParse /\ [][NextParse]_vars

----------------------------------------------------------------------------
\* ---- Parser::parse: HelpFile::parse on the root of a document ----

\* the node sorts of the documents that are built: the root is a help_file
DocSorts ==
    {Sort("block"), Sort("line"), Sort("argument"), Sort("codeblock"),
     Sort("code"), Sort("word"), Sort("ERROR")}

InitDoc ==
    /\ IsTreeOf(tree, MaxDoc, {Sort("help_file")}, DocSorts, ParseTexts)
    /\ op = "parse"
    /\ visitor = [kind |-> "debug", old |-> FALSE]
    /\ unnamed = FALSE
    /\ entry = "HelpFile"
    /\ start = 1
    /\ cursor = start
    /\ outputs = <<>>
    /\ language = <<>>
    /\ calls = <<>>
    /\ reports = <<>>
    /\ pc = "call"
    /\ ret = ""
    /\ result = <<>>
    /\ presult = NoResult
    /\ other = NoWalk
    /\ arg = <<>>
    /\ value = <<>>

SpecDoc == InitDoc /\ [][NextParse]_vars

----------------------------------------------------------------------------
\* ---- Claims about the typed builder ----

Built == op = "parse" /\ pc = "done"

\* the children of n that are malformed (error or missing nodes), and the
\* named children that are not: the ones a builder builds
Malformed(t, n) == is_error(t, n) \/ is_missing(t, n)
ValidNamed(t, n) ==
    SelectSeq(Children(t, n), LAMBDA c : is_named(t, c) /\ ~Malformed(t, c))

\* the entry constructor is of the given family and the root has its kind
CalledOn(family) ==
    entry \in DOMAIN family /\ kind(tree, start) = family[entry].kind

\* what a sequence builder reports: its malformed children and whatever
\* the builds of its other named children report, left to right
ManyReports(child, t, n) ==
    LET cs == Children(t, n)
    IN  Concat([i \in 1..Len(cs) |->
                  IF Malformed(t, cs[i]) THEN InvalidNode_from_node_ref(t, cs[i])
                  ELSE IF is_named(t, cs[i]) THEN parse(child, t, cs[i]).rep
                  ELSE <<>>])

\* C4: a sequence builder fails only when the build of a named child that
\* is not malformed fails; otherwise its sequence is the builds of these
\* children in their order, and every malformed child has been reported.
C4_ManySkipsMalformed ==
    (Built /\ CalledOn(ManyOf)) =>
        LET child == ManyOf[entry].child
            vn == ValidNamed(tree, start)
        IN  /\ presult.ok = (\A i \in 1..Len(vn) : parse(child, tree, vn[i]).ok)
            /\ presult.ok =>
                 /\ presult.ast.type = entry
                 /\ presult.ast.children =
                        [i \in 1..Len(vn) |-> parse(child, tree, vn[i]).ast]
                 /\ reports = ManyReports(child, tree, start)

C4_Witness ==
    /\ Built /\ CalledOn(ManyOf) /\ presult.ok
    /\ \E c \in ChildSet(tree, start) : Malformed(tree, c)
    /\ \E c \in ChildSet(tree, start) : ~is_named(tree, c)
    /\ presult.ast.children # <<>>
    /\ reports # <<>>

\* the kinds each typed constructor accepts (the data model of the AST)
Accepts ==
    [HelpFile |-> {"help_file"}, Block |-> {"block"},
     BlockChild |-> {"line", "line_li"}, Line |-> {"line"},
     LineChild |-> {"argument", "codeblock", "codespan", "column_heading", "h1",
                    "h2", "h3", "keycode", "optionlink", "tag", "taglink", "url",
                    "word"},
     LineLi |-> {"line_li"}, LineLiChild |-> {"codeblock", "line"},
     Argument |-> {"argument"}, Codespan |-> {"codespan"},
     Optionlink |-> {"optionlink"}, Tag |-> {"tag"}, Taglink |-> {"taglink"},
     Url |-> {"url"}, Codeblock |-> {"codeblock"},
     ColumnHeading |-> {"column_heading"}, H1 |-> {"h1"}, H2 |-> {"h2"},
     H3 |-> {"h3"},
     HChild |-> {"argument", "codespan", "keycode", "optionlink", "tag",
                 "taglink", "url", "word"},
     Keycode |-> {"keycode"}, Language |-> {"language"},
     UppercaseName |-> {"uppercase_name"}, Word |-> {"word"}]

\* C5: a typed constructor called on a node of a kind it does not accept
\* returns TypeError with the start position of the node, the kinds it
\* accepts and the kind of the node, and builds nothing.
C5_TypeError ==
    (Built /\ kind(tree, start) \notin Accepts[entry]) =>
        /\ ~presult.ok
        /\ presult.ast = NoAst
        /\ presult.err.tag = "TypeError"
        /\ presult.err.start = start_position(tree, start)
        /\ Range(presult.err.expected_kinds) = Accepts[entry]
        /\ presult.err.actual_kind = kind(tree, start)

C5_Witness ==
    /\ Built /\ entry = "LineChild" /\ kind(tree, start) = "language"
    /\ presult.err.tag = "TypeError"
    /\ Len(presult.err.expected_kinds) = 13

\* C6: a single-child node without a named child that is not malformed
\* fails with MissingField: the start position of the node, the field
\* "text", the kind of the node.
C6_SingleMissingField ==
    (Built /\ CalledOn(SingleOf) /\ ValidNamed(tree, start) = <<>>) =>
        /\ ~presult.ok
        /\ presult.err =
              MissingField(start_position(tree, start), "text", kind(tree, start))

C6_Witness ==
    /\ Built /\ CalledOn(SingleOf) /\ ValidNamed(tree, start) = <<>>
    /\ \E c \in ChildSet(tree, start) : is_error(tree, c)
    /\ \E c \in ChildSet(tree, start) : ~is_named(tree, c)
    /\ presult.err.tag = "MissingField"

C8_H3MissingName ==
    (Built /\ entry = "H3" /\ kind(tree, start) = "h3"
           /\ named_child_count(tree, start) = 0) =>
        /\ ~presult.ok
        /\ presult.err = MissingField(start_position(tree, start), "name", "h3")

C8_Witness ==
    /\ Built /\ entry = "H3" /\ kind(tree, start) = "h3"
    /\ named_child_count(tree, start) = 0
    /\ ChildSet(tree, start) # {}
    /\ presult.err.tag = "MissingField"

\* C9: an h3 node that builds has an uppercase_name as first named child
\* that is not malformed, it is the name, and the children are the builds
\* as HChild of the later ones, in order; an h3 whose first such child is of
\* another kind, or that has a second uppercase_name, fails.
C9_H3Name ==
    (Built /\ entry = "H3" /\ kind(tree, start) = "h3") =>
        LET vn == ValidNamed(tree, start)
        IN  /\ presult.ok =>
                 /\ vn # <<>>
                 /\ kind(tree, vn[1]) = "uppercase_name"
                 /\ presult.ast.opt = <<Ast("UppercaseName", vn[1], <<>>, <<>>)>>
                 /\ presult.ast.children =
                       [i \in 1..(Len(vn) - 1) |-> parse("HChild", tree, vn[i + 1]).ast]
                 /\ \A i \in 2..Len(vn) : parse("HChild", tree, vn[i]).ok
            /\ (vn # <<>> /\ kind(tree, vn[1]) # "uppercase_name") => ~presult.ok
            /\ (\E i \in 2..Len(vn) : kind(tree, vn[i]) = "uppercase_name")
                  => ~presult.ok

C9_Witness ==
    /\ Built /\ entry = "H3" /\ presult.ok
    /\ presult.ast.opt # <<>>
    /\ Len(presult.ast.children) = 2

\* C10: a codeblock that builds has a language exactly when its first named
\* child that is not malformed is a language node; its other such children
\* are line nodes and their builds are its children, in order; a language
\* node at a later place makes the build fail.
C10_CodeblockLanguage ==
    (Built /\ entry = "Codeblock" /\ kind(tree, start) = "codeblock") =>
        LET vn == ValidNamed(tree, start)
            first == vn # <<>> /\ kind(tree, vn[1]) = "language"
            rest == IF first THEN Tail(vn) ELSE vn
        IN  /\ presult.ok =>
                 /\ (presult.ast.opt # <<>>) = first
                 /\ first => presult.ast.opt = <<Ast("Language", vn[1], <<>>, <<>>)>>
                 /\ \A i \in 1..Len(rest) : kind(tree, rest[i]) = "line"
                 /\ presult.ast.children =
                       [i \in 1..Len(rest) |-> parse("Line", tree, rest[i]).ast]
            /\ (\E i \in 2..Len(vn) : kind(tree, vn[i]) = "language") => ~presult.ok

C10_Witness ==
    /\ Built /\ entry = "Codeblock" /\ presult.ok
    /\ presult.ast.opt # <<>>
    /\ Len(presult.ast.children) = 2

----------------------------------------------------------------------------
\* ---- Claims about HelpFile::parse on a whole document ----

BuiltDoc == Built /\ entry = "HelpFile" /\ kind(tree, start) = "help_file"

\* the kinds of the named children a node of each kind of the vocabulary
\* may have: the positions of the typed constructors, and code, the node
\* of the vocabulary that holds the lines of a codeblock
ChildKinds ==
    [help_file |-> {"block"}, block |-> {"line", "line_li"},
     line |-> Accepts.LineChild, line_li |-> {"codeblock", "line"},
     argument |-> {"word"}, codespan |-> {"word"}, optionlink |-> {"word"},
     tag |-> {"word"}, taglink |-> {"word"}, url |-> {"word"},
     codeblock |-> {"language", "line", "code"}, code |-> {"line"},
     column_heading |-> Accepts.HChild, h1 |-> Accepts.HChild,
     h2 |-> Accepts.HChild, h3 |-> {"uppercase_name"} \cup Accepts.HChild,
     keycode |-> {}, language |-> {}, uppercase_name |-> {}, word |-> {}]

\* a tree without error and missing nodes, of kinds of the vocabulary, each
\* at a place where the vocabulary has it: single-child nodes with one
\* word, a language or an uppercase_name only as first child of its parent
Valid(t) ==
    \A n \in Nodes(t) :
        /\ ~Malformed(t, n) /\ is_named(t, n) /\ kind(t, n) \in Vocabulary
        /\ \A c \in ChildSet(t, n) : kind(t, c) \in ChildKinds[kind(t, n)]
        /\ kind(t, n) \in {SingleOf[x].kind : x \in DOMAIN SingleOf}
              => Cardinality(ChildSet(t, n)) = 1
        /\ kind(t, n) = "h3" => ChildSet(t, n) # {}
        /\ \A i \in 1..Len(Children(t, n)) :
              (kind(t, Children(t, n)[i]) = "uppercase_name") = (kind(t, n) = "h3" /\ i = 1)
        /\ \A i \in 2..Len(Children(t, n)) :
              kind(t, Children(t, n)[i]) # "language"

\* C11: HelpFile::parse on the root of a tree without error and missing
\* nodes, of kinds of the vocabulary each at its place, returns Ok.
C11_ValidTreeBuilds == (BuiltDoc /\ Valid(tree)) => presult.ok

TerminalKinds == {TerminalOf[x] : x \in DOMAIN TerminalOf}

RECURSIVE Terminals(_)
\* the spans of the terminals of a built value, depth first, left to right,
\* a field before the sequence that follows it
Terminals(ast) ==
    (IF ast.span # 0 THEN <<ast.span>> ELSE <<>>)
    \o Concat([i \in 1..Len(ast.opt) |-> Terminals(ast.opt[i])])
    \o Concat([i \in 1..Len(ast.children) |-> Terminals(ast.children[i])])

\* the terminal nodes of the tree below n that a build reaches: named, not
\* malformed and not below a malformed, an unnamed or a terminal node
Reached(t, n, m) ==
    /\ IsAncestorOrSelf(t, n, m)
    /\ kind(t, m) \in TerminalKinds
    /\ \A a \in Nodes(t) :
          (IsAncestorOrSelf(t, n, a) /\ IsAncestorOrSelf(t, a, m)) =>
              /\ is_named(t, a) /\ ~Malformed(t, a)
              /\ a # m => kind(t, a) \notin TerminalKinds

\* C12: when a build succeeds, the spans of the terminals of the value,
\* read depth first and left to right, are the terminal nodes the build
\* reaches, in document order, each once.
C12_TerminalsInOrder ==
    (Built /\ presult.ok) =>
        Terminals(presult.ast) =
            SelectSeq(PreOrder(tree, start), LAMBDA m : Reached(tree, start, m))

C12_Witness ==
    /\ Built /\ presult.ok /\ entry = "Line"
    /\ Len(Terminals(presult.ast)) = 2
    /\ \E c \in ChildSet(tree, start) : Malformed(tree, c)

\* the constructor calls a call of `name`::parse on node c makes on the
\* children of c when the kind of c is one of its kinds: for a sequence
\* every named child that is not malformed, for a single field the first
\* of them, for an enum the constructor of the kind on c itself; the
\* attempt of Language on the first child of a codeblock is not one of them
DirectCalls_(name, t, c) ==
    LET vn == ValidNamed(t, c)
    IN  IF kind(t, c) \notin Accepts[name] THEN {}
        ELSE IF name \in DOMAIN ManyOf
        THEN {<<ManyOf[name].child, vn[i]>> : i \in 1..Len(vn)}
        ELSE IF name \in DOMAIN SingleOf
        THEN {<<SingleOf[name].child, vn[i]>> : i \in 1..Min({1, Len(vn)})}
        ELSE IF name \in DOMAIN EnumOf THEN {<<TypeOfKind[kind(t, c)], c>>}
        ELSE IF name = "Codeblock"
        THEN {<<"Line", vn[i]>> :
                 i \in {j \in 1..Len(vn) : j > 1 \/ kind(t, vn[j]) # "language"}}
        ELSE IF name = "H3"
        THEN {<<IF i = 1 THEN "UppercaseName" ELSE "HChild", vn[i]>> : i \in 1..Len(vn)}
        ELSE {}

RECURSIVE CallsWithin(_, _, _)
\* the call itself and the calls within it
CallsWithin(name, t, c) ==
    {<<name, c>>} \cup
    UNION {CallsWithin(d[1], t, d[2]) : d \in DirectCalls_(name, t, c)}

\* C13: HelpFile::parse on the root returns Ok only when no constructor
\* call within the build fails (the attempt of Language on the first child
\* of a codeblock apart), and when it returns Err the error is the one of
\* a constructor call within the build, as that call returned it.
C13_FailurePropagates ==
    BuiltDoc =>
        LET cs == CallsWithin("HelpFile", tree, start)
        IN  /\ presult.ok => \A d \in cs : parse(d[1], tree, d[2]).ok
            /\ ~presult.ok =>
                  \E d \in cs : /\ ~parse(d[1], tree, d[2]).ok
                                /\ parse(d[1], tree, d[2]).err = presult.err

C13_Witness ==
    /\ BuiltDoc /\ ~presult.ok
    /\ presult.err.tag = "TooManyChildren" /\ presult.err.start = 4
    /\ Cardinality(CallsWithin("HelpFile", tree, start)) > 5

----------------------------------------------------------------------------
\* ---- HtmlString::from_parser and DebugString::from_parser, called twice ----

\* the node sorts of the trees that are rendered
RenderSorts ==
    {Sort("block"), Sort("line_li"), Sort("code"), Sort("language"),
     Sort("word"), Sort("ERROR")}

\* the visitors the two from_parser create
Renderers == {[kind |-> "debug", old |-> FALSE], [kind |-> "html", old |-> FALSE]}

\* a second call of from_parser on the same Parser that keeps the visitor
\* of the first call (a faulty variant)
Rerun_KeepsVisitor(w) == [NewWalk(w.tree, w.visitor) EXCEPT !.language = w.language]

\* a second call of from_parser on the same Parser: a new cursor on the
\* same tree and a new visitor with the same options
Rerun(w) == NewWalk(w.tree, w.visitor)

InitTwice ==
    /\ IsTree(tree, RenderSorts, RenderSorts, WalkTexts)
    /\ op = "visit_all"
    /\ visitor \in Renderers
    /\ unnamed = FALSE
    /\ entry = ""
    /\ start = 1
    /\ cursor = NewWalk(tree, visitor).cursor
    /\ outputs = NewWalk(tree, visitor).outputs
    /\ language = NewWalk(tree, visitor).language
    /\ calls = <<>>
    /\ reports = <<>>
    /\ pc = "loop"
    /\ ret = ""
    /\ result = <<>>
    /\ presult = NoResult
    /\ other = NoWalk
    /\ arg = <<>>
    /\ value = <<>>

\* The first call has returned (or panicked): from_parser is called again.
SecondRun ==
    /\ op = "visit_all" /\ pc \in {"done", "panic"} /\ other.pc = "none"
    /\ other' = Me
    /\ \E w \in {Rerun(Me)} : Becomes(w)
    /\ UNCHANGED <<op, entry, start, reports, presult, arg, value>>

NextTwice == VisitAllLoop \/ VisitAllClimb \/ SecondRun

SpecTwice == InitTwice /\ [][NextTwice]_vars

----------------------------------------------------------------------------
\* ---- Claims about the renderers ----

\* the walk of HtmlString::from_parser: visit_all_named from the root with
\* HtmlVisitor::new(HtmlVisitorOpt { old: false })
IsHtmlRender ==
    /\ op = "visit_all" /\ ~unnamed /\ start = 1
    /\ visitor = [kind |-> "html", old |-> FALSE]

\* C14: HtmlString::from_parser never panics, whatever the kinds of the
\* nodes of the tree and whether or not it has error or missing nodes.
C14_HtmlNeverFails == IsHtmlRender => pc # "panic"

L_help_li ==
    <<"<", "d", "i", "v", " ", "c", "l", "a", "s", "s", "=", "\"", "h", "e",
      "l", "p", "-", "l", "i", "\"">>

\* the number of places of s where lit occurs
Occurrences(s, lit) == Cardinality({i \in 1..Len(s) : OccursAt(s, lit, i)})

\* C16: each line_li of the tree is rendered as one help-li element, the
\* element whose margin carries the indentation level of the item: a
\* rendering of a tree with line_li nodes returns, and has as many help-li
\* elements as the tree has line_li nodes.
C16_LineLiRendered ==
    (IsHtmlRender /\ pc \in {"done", "panic"}
        /\ \E n \in Nodes(tree) : kind(tree, n) = "line_li") =>
        /\ pc = "done"
        /\ Occurrences(result, L_help_li)
               = Cardinality({n \in Nodes(tree) : kind(tree, n) = "line_li"})

----------------------------------------------------------------------------
\* ---- fix_url and trim_indent, called on a string ----

\* the longest string made of the characters below that is tried
MaxStr == 5

\* the strings of at most max characters of the alphabet
Strings(alphabet, max) == UNION {[1..k -> alphabet] : k \in 0..max}

\* the url "https://example.com)."
Url_example ==
    <<"h", "t", "t", "p", "s", ":", "/", "/", "e", "x", "a", "m", "p", "l",
      "e", ".", "c", "o", "m", ")", ".">>

\* the text "  a\n    b\n  c"
Indent_example ==
    <<" ", " ", "a", "\n", " ", " ", " ", " ", "b", "\n", " ", " ", "c">>

UrlChars == {"a", ".", ")"}
IndentChars == {"a", " ", "\t", "\n", "\r"}
TabWidths == {0, 2, 8}

\* the arms of the match of Display for NodeType: <<variant, what is written>>
DisplayArms ==
    {<<"Argument", "argument">>, <<"Block", "block">>, <<"Code", "code">>,
     <<"Codeblock", "codeblock">>, <<"Codespan", "codespan">>,
     <<"ColumnHeading", "column_heading">>, <<"H1", "h1">>, <<"H2", "h2">>,
     <<"H3", "h3">>, <<"HelpFile", "help_file">>, <<"Keycode", "keycode">>,
     <<"Language", "language">>, <<"Line", "line">>, <<"LineLi", "line_li">>,
     <<"Optionlink", "optionlink">>, <<"Tag", "tag">>, <<"Taglink", "taglink">>,
     <<"UppercaseName", "uppercase_name">>, <<"Url", "url">>, <<"Word", "word">>}

\* Display for NodeType that writes the name of the variant LineLi with a
\* hyphen (a faulty variant)
NodeType_to_string_Hyphen(nt) ==
    IF nt = "LineLi" THEN "line-li"
    ELSE (CHOOSE a \in DisplayArms : a[1] = nt)[2]

\* nt.to_string(), by Display for NodeType
NodeType_to_string(nt) == (CHOOSE a \in DisplayArms : a[1] = nt)[2]

\* NodeType::from_str: the variant, or "Err" for Err(())
NodeType_from_str(s) ==
    CASE s = "argument" -> "Argument"
      [] s = "block" -> "Block"
      [] s = "code" -> "Code"
      [] s = "codeblock" -> "Codeblock"
      [] s = "codespan" -> "Codespan"
      [] s = "column_heading" -> "ColumnHeading"
      [] s = "h1" -> "H1"
      [] s = "h2" -> "H2"
      [] s = "h3" -> "H3"
      [] s = "help_file" -> "HelpFile"
      [] s = "keycode" -> "Keycode"
      [] s = "language" -> "Language"
      [] s = "line" -> "Line"
      [] s = "line_li" -> "LineLi"
      [] s = "optionlink" -> "Optionlink"
      [] s = "tag" -> "Tag"
      [] s = "taglink" -> "Taglink"
      [] s = "uppercase_name" -> "UppercaseName"
      [] s = "url" -> "Url"
      [] s = "word" -> "Word"
      [] OTHER -> "Err"

\* the bound of the limit of truncate_str
MaxCut == 21

\* the strings of the calls of truncate_str and of the debug closure: all
\* those of at most MaxStr characters of one to four bytes, and some of
\* more than 10 bytes
Utf8Chars == {"a", "U+00E9", "U+20AC", "U+1F600"}

Utf8Strings ==
    Strings(Utf8Chars, MaxStr) \cup
        {<<"a", "b", "c", "d", "e", "f", "g", "h", "i", "j">>,
         <<"a", "b", "c", "d", "e", "f", "g", "h", "i", "j", "k">>,
         <<"a", "b", "c", "d", "e", "f", "g", "h", "i", "U+00E9", "k">>,
         <<"a", "b", "c", "d", "e", "f", "g", "h", "U+20AC", "k">>,
         <<"a", "b", "c", "d", "e", "f", "g", "U+1F600", "k">>,
         <<"a", "\n", "\"", "\\">>,
         <<"U+00E9", "U+00E9", "U+00E9", "U+00E9", "U+00E9", "U+00E9">>}

\* the argument lists of the calls
TextArgs(f) ==
    IF f = "fix_url"
    THEN {<<s>> : s \in Strings(UrlChars, MaxStr) \cup {Url_example}}
    ELSE IF f = "from_str"
    THEN {<<s>> : s \in Vocabulary \cup AnonymousKinds \cup
                    {"", "ERROR", "MISSING", "Word", "WORD", "word ", " word",
                     "words", "h0", "h4", "h", "H1", "helpfile", "help-file",
                     "HelpFile", "help_file_", "lineli", "line-li", "line_l",
                     "LineLi", "li", "columnheading", "column-heading",
                     "ColumnHeading", "column", "heading", "uppercasename",
                     "uppercase", "name", "UppercaseName", "code_block",
                     "code_span", "key_code", "option_link", "tag_link",
                     "link", "lang", "arg", "uri", "URL", "text", "blocks"}}
    ELSE IF f = "to_string"
    THEN {<<a[1]>> : a \in DisplayArms}
    ELSE IF f = "truncate_str"
    THEN Utf8Strings \X (0..MaxCut)
    ELSE IF f = "debug_text"
    THEN {<<s>> : s \in Utf8Strings}
    ELSE (Strings(IndentChars, MaxStr) \cup {Indent_example}) \X TabWidths

InitText ==
    /\ op \in {"fix_url", "trim_indent", "from_str", "to_string",
                "truncate_str", "debug_text"}
    /\ arg \in TextArgs(op)
    /\ value = <<>>
    /\ pc = "call"
    /\ tree = NoWalk.tree
    /\ visitor = NoWalk.visitor
    /\ unnamed = FALSE
    /\ entry = ""
    /\ start = 1
    /\ cursor = 1
    /\ outputs = <<>>
    /\ language = <<>>
    /\ calls = <<>>
    /\ reports = <<>>
    /\ ret = ""
    /\ result = <<>>
    /\ presult = NoResult
    /\ other = NoWalk

\* the index of the slice url[..url.len() - remaining_len] is in range
fix_url_slice_in_range(url) == Len(url) - (IF ends_with(url, ".") THEN 1 ELSE 0) >= 0

\* fix_url(arg[1]): value is <<head, trailing>>
CallFixUrl ==
    /\ op = "fix_url" /\ pc = "call"
    /\ \E r \in {fix_url(arg[1])} :
          /\ value' = r
          /\ pc' = IF fix_url_slice_in_range(arg[1]) THEN "done" ELSE "panic"
    /\ UNCHANGED <<tree, op, visitor, unnamed, entry, start, cursor, outputs,
                   language, calls, reports, ret, result, presult, other, arg>>

\* trim_indent(arg[1], arg[2]): value is <<the String returned>>
CallTrimIndent ==
    /\ op = "trim_indent" /\ pc = "call"
    /\ \E r \in {trim_indent(arg[1], arg[2])} :
          /\ value' = <<r>>
          /\ pc' = "done"
    /\ UNCHANGED <<tree, op, visitor, unnamed, entry, start, cursor, outputs,
                   language, calls, reports, ret, result, presult, other, arg>>

\* NodeType::from_str(arg[1]), or arg[1].to_string().parse::<NodeType>():
\* value is <<the variant>>, or <<"Err">>
CallFromStr ==
    /\ op \in {"from_str", "to_string"} /\ pc = "call"
    /\ \E s \in {IF op = "to_string" THEN NodeType_to_string(arg[1]) ELSE arg[1]} :
          value' = <<NodeType_from_str(s)>>
    /\ pc' = "done"
    /\ UNCHANGED <<tree, op, visitor, unnamed, entry, start, cursor, outputs,
                   language, calls, reports, ret, result, presult, other, arg>>

\* the rposition of floor_char_boundary(s, index) finds no boundary
boundary_not_found(s, index) ==
    /\ index < str_len(s)
    /\ rposition_boundary(s, IF index >= 3 THEN index - 3 ELSE 0, index) = {}

\* truncate_str(arg[1], arg[2]), or the text of the debug line of a node
\* whose raw text is arg[1]: value is the str returned; a panic of the
\* slice ends the call, and where the rposition finds no boundary the
\* behaviour is undefined: any str, or a crash
CallTruncateStr ==
    /\ op \in {"truncate_str", "debug_text"} /\ pc = "call"
    /\ \E cnt \in {IF op = "truncate_str" THEN arg[2] ELSE 10} :
          IF boundary_not_found(arg[1], cnt) /\ (op = "truncate_str" \/ str_len(arg[1]) > 10)
          THEN /\ value' \in Utf8Strings
               /\ pc' \in {"done", "panic", "undefined"}
          ELSE \E r \in {truncate_str(arg[1], cnt)} :
                  /\ value' = IF op = "truncate_str" THEN r ELSE DebugText(arg[1])
                  /\ pc' = IF r = <<"slice panicked">>
                              /\ (op = "truncate_str" \/ str_len(arg[1]) > 10)
                           THEN "panic" ELSE "done"
    /\ UNCHANGED <<tree, op, visitor, unnamed, entry, start, cursor, outputs,
                   language, calls, reports, ret, result, presult, other, arg>>

NextText == CallFixUrl \/ CallTrimIndent \/ CallFromStr \/ CallTruncateStr

SpecText == InitText /\ [][NextText]_vars

----------------------------------------------------------------------------
\* ---- Claims about fix_url and trim_indent ----

\* C17: fix_url(s) returns, and returns s cut in (head, trailing), where
\* trailing is the final "." of s, if any, preceded by the ")" that ends
\* what is before it, if any: one of "", ".", ")", ")."; the head of
\* "https://example.com)." is "https://example.com" and its trailing ").".
C17_FixUrl ==
    (op = "fix_url" /\ pc # "call") =>
        LET s    == arg[1]
            dot  == s # <<>> /\ s[Len(s)] = "."
            rest == IF dot THEN SubSeq(s, 1, Len(s) - 1) ELSE s
            par  == rest # <<>> /\ rest[Len(rest)] = ")"
        IN  /\ pc = "done"
            /\ value[1] \o value[2] = s
            /\ value[2] = (IF par THEN <<")">> ELSE <<>>)
                             \o (IF dot THEN <<".">> ELSE <<>>)
            /\ value[2] \in {<<>>, <<".">>, <<")">>, <<")", ".">>}
            /\ s = Url_example =>
                  value = <<SubSeq(Url_example, 1, 19), <<")", ".">>>>

C17_Witness ==
    /\ op = "fix_url" /\ pc = "done"
    /\ arg[1] = Url_example
    /\ value[2] = <<")", ".">>

\* s without its spaces
NonSpace(s) == SelectSeq(s, LAMBDA c : c # " ")

\* the lines without their first m characters, joined by newlines
Dedented(ls, m) ==
    join([i \in 1..Len(ls) |-> SubSeq(ls[i], m + 1, Len(ls[i]))], <<"\n">>)

\* the least number of leading spaces of the lines ls
CommonIndent(ls) == Min({LeadingSpaces(ls[i]) : i \in 1..Len(ls)})

\* the text "a\n  b\nc"
Dedented_example == <<"a", "\n", " ", " ", "b", "\n", "c">>

\* C18, as claimed: with the tabs of s replaced by w spaces and the lines
\* being what the newlines separate, trim_indent(s, w) is the lines without
\* their common indentation joined by newlines, so that nothing but spaces
\* is removed; "  a\n    b\n  c" gives "a\n  b\nc".
C18_OnlySpacesRemoved ==
    (op = "trim_indent" /\ pc = "done") =>
        LET e  == replace(arg[1], "\t", repeat(<<" ">>, arg[2]))
            ls == SplitNewline(e)
        IN  /\ value[1] = Dedented(ls, CommonIndent(ls))
            /\ NonSpace(value[1]) = NonSpace(e)
            /\ arg[1] = Indent_example => value[1] = Dedented_example

RECURSIVE DropLineEndings(_)
\* s without the carriage returns that precede a newline and without its
\* final newline
DropLineEndings(s) ==
    IF s = <<>> \/ s = <<"\n">> THEN <<>>
    ELSE IF Len(s) >= 2 /\ s[1] = "\r" /\ s[2] = "\n"
         THEN DropLineEndings(Tail(s))
    ELSE <<Head(s)>> \o DropLineEndings(Tail(s))

\* C18, amended: the same of the text whose line endings are normalised: a
\* carriage return before a newline and the final newline of the text are
\* dropped as well.
C18_TrimIndent ==
    (op = "trim_indent" /\ pc = "done") =>
        LET e  == DropLineEndings(replace(arg[1], "\t", repeat(<<" ">>, arg[2])))
            ls == SplitNewline(e)
        IN  /\ value[1] = Dedented(ls, CommonIndent(ls))
            /\ NonSpace(value[1]) = NonSpace(e)
            /\ arg[1] = Indent_example => value[1] = Dedented_example

C18_Witness ==
    /\ op = "trim_indent" /\ pc = "done"
    /\ arg = <<Indent_example, 8>>
    /\ value[1] = Dedented_example

----------------------------------------------------------------------------
\* ---- Claims about the end of the walks ----

\* the place of the node n in the pre-order of the tree
Position(t, n) == CHOOSE i \in 1..t.n : PreOrder(t, 1)[i] = n

\* the place of the last node of the subtree of n
LastPosition(t, n) == Position(t, n) + Cardinality(Subtree(t, n)) - 1

\* A bound on the steps the walk w has left: none once it has returned or
\* panicked; one for the call of visit_children; for visit_all the nodes
\* from the cursor on when it is about to visit, the nodes after the
\* subtree of the cursor and the levels above it when it climbs.
Variant(w) ==
    IF w.pc \in {"done", "panic"} THEN 0
    ELSE IF w.pc = "call" THEN 1
    ELSE IF w.pc = "loop"
         THEN (w.tree.n + 1) * (w.tree.n - Position(w.tree, w.cursor) + 1) + 1
    ELSE (w.tree.n + 1) * (w.tree.n - LastPosition(w.tree, w.cursor))
             + depth(w.tree, w.cursor) + 1

\* every step of a walk brings its end nearer: the walk ends, by returning
\* or by a panic, after finitely many steps
WalkEnds == [][\E w \in {Me'} : Variant(w) < Variant(Me)]_vars

\* C19: every walk returns after finitely many steps: each step of
\* visit_all and visit_children, with the debug visitor and with
\* HtmlVisitor, brings the return nearer, and none is a panic.
C19_WalkReturns ==
    [][\E w \in {Me'} : Variant(w) < Variant(Me) /\ w.pc # "panic"]_vars

----------------------------------------------------------------------------
\* ---- Two conversions, each on its own document, interleaved ----

\* the most nodes of each of the two trees
MaxPair == 3

\* the node sorts of the two trees
PairSorts == {Sort("block"), Sort("code"), Sort("language")}

\* the trees of the two documents
PairTrees ==
    {t \in UNION {{MkTree(n, p, srt, txt) :
                      p \in TreeShapes(n), srt \in [1..n -> PairSorts],
                      txt \in [1..n -> WalkTexts]} : n \in 1..MaxPair} :
        WellFormed(t)}

\* one iteration of visit_all in the walk w, of its outer or its inner loop
visit_all_step(w) == IF w.pc = "loop" THEN visit_all_loop(w) ELSE visit_all_climb(w)

\* HtmlString::from_parser is called on two Parsers: each call has its own
\* tree, cursor, visitor and outputs (`other` holds those of the second)
InitTwo ==
    /\ tree \in PairTrees
    /\ op = "visit_all"
    /\ visitor = [kind |-> "html", old |-> FALSE]
    /\ unnamed = FALSE
    /\ entry = ""
    /\ start = 1
    /\ cursor = NewWalk(tree, visitor).cursor
    /\ outputs = NewWalk(tree, visitor).outputs
    /\ language = NewWalk(tree, visitor).language
    /\ calls = <<>>
    /\ reports = <<>>
    /\ pc = "loop"
    /\ ret = ""
    /\ result = <<>>
    /\ presult = NoResult
    /\ other \in {NewWalk(t, visitor) : t \in PairTrees}
    /\ arg = <<>>
    /\ value = <<>>

\* an iteration of the outer loop in the second call, whose visitor is the
\* one of the first call (a faulty variant)
OtherLoop_SharedVisitor ==
    /\ op = "visit_all" /\ other.pc = "loop"
    /\ \E w \in {visit_all_step([other EXCEPT !.language = language])} :
          /\ other' = w
          /\ language' = w.language
    /\ UNCHANGED <<tree, op, visitor, unnamed, entry, start, cursor, outputs,
                   calls, reports, pc, ret, result, presult, arg, value>>

\* an iteration of the outer loop in the second call
OtherLoop ==
    /\ op = "visit_all" /\ other.pc = "loop"
    /\ \E w \in {visit_all_step(other)} : other' = w
    /\ UNCHANGED <<tree, op, visitor, unnamed, entry, start, cursor, outputs,
                   language, calls, reports, pc, ret, result, presult, arg, value>>

\* an iteration of the inner loop in the second call
OtherClimb ==
    /\ op = "visit_all" /\ other.pc = "climb"
    /\ \E w \in {visit_all_step(other)} : other' = w
    /\ UNCHANGED <<tree, op, visitor, unnamed, entry, start, cursor, outputs,
                   language, calls, reports, pc, ret, result, presult, arg, value>>

NextTwo == VisitAllLoop \/ VisitAllClimb \/ OtherLoop \/ OtherClimb

SpecTwo == InitTwo /\ [][NextTwo]_vars

----------------------------------------------------------------------------
\* ---- Claims about two conversions ----

RECURSIVE RunAlone(_)
\* the walk w at its end when nothing else runs
RunAlone(w) ==
    IF w.pc \in {"done", "panic"} THEN w
    ELSE Only({RunAlone(x) : x \in {visit_all_step(w)}})

\* w has ended, and ended as the walk of its tree does when nothing else runs
EndsAsAlone(w) ==
    w.pc \in {"done", "panic"} =>
        \E a \in {RunAlone(NewWalk(w.tree, w.visitor))} :
            /\ w.pc = a.pc
            /\ w.result = a.result
            /\ w.language = a.language

----------------------------------------------------------------------------
\* ---- Claims about NodeType ----

\* C21: NodeType::from_str returns a NodeType for the 20 kinds of the
\* vocabulary, each a different one, and Err for every other string; the
\* Display form of a NodeType parses to that NodeType.
C21_FromStr ==
    /\ Cardinality(Vocabulary) = 20
    /\ (op = "from_str" /\ pc = "done") =>
          /\ value[1] # "Err" <=> arg[1] \in Vocabulary
          /\ value[1] # "Err" =>
                /\ value[1] \in {a[1] : a \in DisplayArms}
                /\ \A k \in Vocabulary :
                      NodeType_from_str(k) = value[1] => k = arg[1]
    /\ (op = "to_string" /\ pc = "done") => value[1] = arg[1]

C21_Witness ==
    /\ op = "to_string" /\ pc = "done"
    /\ arg[1] = "LineLi" /\ value[1] = "LineLi"

----------------------------------------------------------------------------
\* ---- Claims about the lists of visit_all ----

\* the outputs of the calls of visit that visit_all made on the node n
OwnOutputs(n) ==
    LET on == SelectSeq(DirectCalls, LAMBDA c : c.node = n)
    IN  [i \in 1..Len(on) |-> on[i].out]

RECURSIVE Accumulated(_)
\* the join of the list of one depth when the walk leaves it, ns the
\* siblings of that depth: for each of them its own output, then the join
\* of the list of its children when it has children
Accumulated(ns) ==
    join(Concat([i \in 1..Len(ns) |->
                    OwnOutputs(ns[i])
                    \o (IF ChildSet(tree, ns[i]) = {} THEN <<>>
                        ELSE <<Accumulated(Children(tree, ns[i]))>>)]),
         JoinerOf(visitor))

\* C22: the value visit_all returns is the join of the list of depth 0,
\* which holds the output of the root followed by the join of the list of
\* its children, and so on at every depth: the join of the list of a
\* node's children comes directly after the node's own output in the list
\* of the node's depth.
C22_ListPerDepth ==
    (op = "visit_all" /\ pc = "done") => result = Accumulated(<<1>>)

----------------------------------------------------------------------------
\* ---- HtmlVisitor on documents whose text matters ----

\* the most nodes of a tree whose leaves have these texts
MaxHtml == 3

\* the node sorts of these trees
HtmlSorts ==
    {Sort("block"), Sort("code"), Sort("language"), Sort("word"), Sort("ERROR")}

\* the texts of their leaves: a letter, a blank, markup characters, an
\* unclosed tag after a space, a text of more than 10 bytes that holds an
\* ampersand
HtmlTexts ==
    {<<"a">>, <<" ">>, <<"<", "&", ">">>, <<" ", "*", "a">>,
     <<"a", "b", "c", "d", "e", "f", "g", "h", "&", "i", "j">>}

\* HtmlVisitor::new(HtmlVisitorOpt { old: false }) walks such a tree
InitHtml ==
    /\ IsTreeOf(tree, MaxHtml, HtmlSorts, HtmlSorts, HtmlTexts)
    /\ op \in {"visit_all", "visit_children"}
    /\ visitor = [kind |-> "html", old |-> FALSE]
    /\ unnamed = FALSE
    /\ entry = ""
    /\ start \in IF op = "visit_all" THEN {1} ELSE Nodes(tree)
    /\ cursor = start
    /\ outputs = IF op = "visit_all" THEN << <<>> >> ELSE <<>>
    /\ language = <<>>
    /\ calls = <<>>
    /\ reports = <<>>
    /\ pc = IF op = "visit_all" THEN "loop" ELSE "call"
    /\ ret = ""
    /\ result = <<>>
    /\ presult = NoResult
    /\ other = NoWalk
    /\ arg = <<>>
    /\ value = <<>>

SpecHtml == InitHtml /\ [][Next]_vars

----------------------------------------------------------------------------
\* ---- Claims about HtmlVisitor::visit ----

\* the calls of visit on nodes of kind k, as places in `calls`
CallsOn(k) == {i \in 1..Len(calls) : kind(tree, calls[i].node) = k}

\* the call on a Language node whose text the call i on a Code node is to
\* consume: the last one before i with no call on a Code node in between
\* (0 when there is none)
PendingLanguage(i) ==
    LET js == {j \in CallsOn("language") :
                  j < i /\ \A k \in CallsOn("code") : ~(j < k /\ k < i)}
    IN  IF js = {} THEN 0 ELSE CHOOSE j \in js : \A x \in js : x <= j

\* C23: a Language node renders as the empty string; a Code node visited
\* next after a Language node gets the class language-<text of that node>;
\* a Code node with no Language node visited since the Code node before it
\* gets no language class.
C23_LanguageConsumed ==
    (visitor.kind = "html" /\ op = "visit_all") =>
        /\ \A i \in CallsOn("language") : calls[i].out = <<>>
        /\ \A i \in CallsOn("code") :
              IF PendingLanguage(i) = 0
              THEN ~OccursAt(calls[i].out, L_pre_code_language, 1)
              ELSE OccursAt(calls[i].out,
                            L_pre_code_language
                                \o node_raw_text(tree, calls[PendingLanguage(i)].node)
                                \o L_quote_gt, 1)

\* the calls of visit made for the children of the node of the call i, as
\* places in `calls`: those one level below it, up to the next call that is
\* not below it
ChildCalls(i) ==
    LET after == {j \in (i + 1)..Len(calls) : calls[j].lvl <= calls[i].lvl}
        last  == IF after = {} THEN Len(calls) ELSE Min(after) - 1
    IN  SelectSeq([j \in 1..(last - i) |-> i + j],
                  LAMBDA j : calls[j].lvl = calls[i].lvl + 1)

\* C24, of the calls of a walk that did not panic: a call of
\* HtmlVisitor::visit on a node without named children, or
\* with an error or missing node in its subtree, renders no child, and its
\* text is the escaped text of the node (returned as it is for a word);
\* any other call renders the named children of the node, each once, from
\* left to right.
C24_BaseText ==
    (visitor.kind = "html" /\ pc # "panic") =>
        \A i \in 1..Len(calls) :
            LET n  == calls[i].node
                cs == ChildCalls(i)
            IN  IF ~has_children(tree, n) \/ has_error(tree, n)
                THEN /\ cs = <<>>
                     /\ kind(tree, n) = "word" /\ ~has_error(tree, n) =>
                           calls[i].out = node_clean_text(tree, n)
                ELSE [k \in 1..Len(cs) |-> calls[cs[k]].node]
                         = SelectSeq(Children(tree, n),
                                     LAMBDA c : is_named(tree, c))

\* the calls of visit on nodes of no recognized kind with an error or
\* missing node in their subtree, as places in `calls`
ErrorCalls ==
    {i \in 1..Len(calls) :
        /\ kind(tree, calls[i].node) \notin Vocabulary
        /\ has_error(tree, calls[i].node)}

\* s without the blanks it starts with
RECURSIVE Unindented(_)
Unindented(s) ==
    IF s # <<>> /\ s[1] \in Whitespace THEN Unindented(Tail(s)) ELSE s

\* C25: a visited node of no recognized kind with an error in its subtree
\* is rendered as its (escaped) text when the text, leading whitespace
\* apart, starts with a backtick, a quote, a pipe or an asterisk, and else
\* as "{ERROR: ", at most the first 10 bytes of the text, "}"; the
\* rendering is not empty, and is part of what visit_all returns.
C25_ErrorFallback ==
    (visitor.kind = "html" /\ pc # "panic") =>
        \A i \in ErrorCalls :
            LET text == node_clean_text(tree, calls[i].node)
                rest == Unindented(text)
                cut  == IF Len(text) <= 10 THEN text ELSE SubSeq(text, 1, 10)
            IN  /\ calls[i].out =
                      IF rest # <<>> /\ rest[1] \in {Backtick, "'", "|", "*"}
                      THEN text
                      ELSE L_error_open \o cut \o L_error_close
                /\ calls[i].out # <<>>
                /\ (op = "visit_all" /\ pc = "done" /\ calls[i].lvl = 0) =>
                      \E k \in 1..Len(result) : OccursAt(result, calls[i].out, k)

C25_Witness ==
    /\ visitor.kind = "html" /\ op = "visit_all" /\ pc = "done"
    /\ \E i \in ErrorCalls :
          /\ Len(node_clean_text(tree, calls[i].node)) > 10
          /\ OccursAt(calls[i].out, L_error_open, 1)
          /\ Len(calls[i].out) = Len(L_error_open) + 10 + Len(L_error_close)
    /\ \E i \in ErrorCalls :
          /\ calls[i].out = <<" ", "*", "a">>

----------------------------------------------------------------------------
\* ---- Claims about truncate_str and the text of a debug line ----

\* the text of a debug line is the quoted text `shown`, trimmed or not
Quoted(shown, trimmed) ==
    <<"\"">> \o shown \o <<"\"">> \o
        (IF trimmed THEN <<" ", "[", "t", "r", "i", "m", "m", "e", "d", "]">>
         ELSE <<>>)

\* the text without what Debug formatting adds to it: the backslash in
\* front of a newline, a tab, a carriage return, a quote or a backslash
RECURSIVE Unescaped(_)
Unescaped(s) ==
    IF s = <<>> THEN <<>>
    ELSE IF s[1] = "\\" /\ Len(s) >= 2
         THEN <<CASE s[2] = "n" -> "\n" [] s[2] = "t" -> "\t"
                  [] s[2] = "r" -> "\r" [] OTHER -> s[2]>>
                  \o Unescaped(SubSeq(s, 3, Len(s)))
         ELSE <<s[1]>> \o Unescaped(Tail(s))

\* what a debug line shows of the text: the text in full, or a prefix of it
\* and the mark of the cut
Shows(text, trimmed) ==
    /\ value # <<>> /\ value[1] = "\"" 
    /\ \E k \in 2..Len(value) :
          /\ value = Quoted(SubSeq(value, 2, k - 1), trimmed)
          /\ Unescaped(SubSeq(value, 2, k - 1)) = text

\* the cut of truncate_str(arg[1], arg[2]) is on a character boundary (the
\* result is a prefix of whole characters), is of at most arg[2] bytes, and
\* no call panics or has undefined behaviour
CutIsSafe ==
    /\ pc \notin {"panic", "undefined"}
    /\ (op = "truncate_str" /\ pc = "done") =>
          /\ Len(value) <= Len(arg[1])
          /\ value = SubSeq(arg[1], 1, Len(value))
          /\ str_len(value) <= arg[2]

\* C26 as stated: the text is shown in full when it has at most 10
\* characters, and else its first 10 characters and " [trimmed]"; the cut
\* of truncate_str is on a character boundary, no longer than the limit,
\* and never panics.
C26_TenCharacters ==
    (op \in {"truncate_str", "debug_text"}) =>
        /\ CutIsSafe
        /\ (op = "debug_text" /\ pc = "done") =>
              IF Len(arg[1]) <= 10
              THEN Shows(arg[1], FALSE)
              ELSE Shows(SubSeq(arg[1], 1, 10), TRUE)

\* C26: the text is shown in full when it has at most 10 bytes, and else
\* the longest prefix of whole characters of at most 10 bytes and
\* " [trimmed]"; the cut of truncate_str is on a character boundary, no
\* longer than the limit, and never panics.
C26_TenBytes ==
    (op \in {"truncate_str", "debug_text"}) =>
        /\ CutIsSafe
        /\ (op = "debug_text" /\ pc = "done") =>
              IF str_len(arg[1]) <= 10
              THEN Shows(arg[1], FALSE)
              ELSE \E k \in 0..Len(arg[1]) :
                      /\ str_len(SubSeq(arg[1], 1, k)) <= 10
                      /\ str_len(SubSeq(arg[1], 1, k + 1)) > 10
                      /\ Shows(SubSeq(arg[1], 1, k), TRUE)

\* a limit inside a character of four bytes, three bytes after its start
C26_Witness ==
    /\ op = "truncate_str" /\ pc = "done"
    /\ arg = <<<<"a", "U+1F600", "a">>, 4>>
    /\ value = <<"a">>

----------------------------------------------------------------------------
\* ---- Claims about the cursor ----

\* the walk is a visit_all from the root, as DebugString::from_parser and
\* HtmlString::from_parser start it
FromRoot == op = "visit_all" /\ start = 1

\* C27: at every iteration of visit_all started at the root there is one
\* list more than the cursor is deep, the stack of lists is never empty
\* while the walk goes on, and the walk returns only where goto_parent
\* fails, with the join of the first list.
C27_OneListPerDepth ==
    FromRoot =>
        /\ pc \in {"loop", "climb"} =>
              /\ outputs # <<>>
              /\ Len(outputs) = depth(tree, cursor) + 1
        /\ pc = "done" => ret = "root"

\* the same of the walks of the debug visitor alone
OneListPerDepth_Debug == visitor.kind = "debug" => C27_OneListPerDepth

\* the node of the call of visit the operation makes next: the node of the
\* cursor in visit_all, the first child in visit_children; 0 for none
NextVisited ==
    LET n == IF op = "visit_all" /\ pc = "loop" THEN cursor
             ELSE IF op = "visit_children" /\ pc = "call"
             THEN goto_first_child(tree, cursor)
             ELSE 0
    IN  IF n # 0 /\ Visited(tree, n, unnamed) THEN n ELSE 0

\* C28: a call of Visitor::visit made by visit_all or by visit_children
\* that returns, returns with the cursor on the node it was called on.
C28_VisitRestoresCursor ==
    NextVisited # 0 =>
        \E r \in {visit(visitor, tree, NextVisited, language, 0)} :
            ~r.panic => r.cur = NextVisited

\* the same of the calls of the visit of the debug visitor alone
VisitRestoresCursor_Debug == visitor.kind = "debug" => C28_VisitRestoresCursor

\* the calls `name`::parse on node n that get past the match on the kind
ParseCalls ==
    {<<name, n>> \in Constructors \X Nodes(tree) :
        kind(tree, n) \in Range(concat_kinds(name))}

\* C29: a parse call of the typed builder that returns Ok leaves the cursor
\* on the node it was called on; one that returns Err leaves it on that
\* node or on a descendant of it; and the Language::parse that Codeblock
\* tries on its first child leaves the cursor unmoved when it fails.
C29_ParseRestoresCursor ==
    Built =>
        /\ presult.ok => cursor = start
        /\ IsAncestorOrSelf(tree, start, cursor)
        /\ \A call \in ParseCalls :
              \E r \in {parse(call[1], tree, call[2])} :
                  /\ r.ok => r.cur = call[2]
                  /\ IsAncestorOrSelf(tree, call[2], r.cur)
        /\ \A n \in Nodes(tree) :
              \E r \in {parse("Language", tree, n)} : ~r.ok => r.cur = n

\* a Codeblock is built whose first child is no language but a line with
\* children of its own
C29_Witness ==
    /\ Built /\ presult.ok /\ cursor = start
    /\ entry = "Codeblock" /\ tree.n >= 3
    /\ kind(tree, 2) = "line" /\ tree.parent[3] = 2
    /\ ~parse("Language", tree, 2).ok
    /\ Len(presult.ast.children) >= 1

----------------------------------------------------------------------------
\* ---- Claims about the escaping of the source text ----

\* the tree t with a letter in the place of every '&', '<' and '>' of its
\* text: the same document with nothing to escape
Harmless(t) ==
    [t EXCEPT !.text =
        [n \in 1..t.n |->
            [k \in 1..Len(t.text[n]) |->
                IF t.text[n][k] \in {"&", "<", ">"} THEN "a" ELSE t.text[n][k]]]]

\* the place i of s is the start of one of the entities of node_clean_text
EntityAt(s, i) ==
    \/ OccursAt(s, <<"&", "a", "m", "p", ";">>, i)
    \/ OccursAt(s, <<"&", "l", "t", ";">>, i)
    \/ OccursAt(s, <<"&", "g", "t", ";">>, i)

\* C30: the text HtmlVisitor copies from the source is escaped: the HTML
\* returned has no '<' and no '>' but those of the markup, which are those
\* of the rendering of the same document with nothing to escape, and each
\* '&' of it starts an entity.
C30_SourceEscaped ==
    (op = "visit_all" /\ visitor.kind = "html" /\ pc = "done") =>
        \E plain \in {RunAlone(NewWalk(Harmless(tree), visitor))} :
            /\ Occurrences(result, <<"<">>) = Occurrences(plain.result, <<"<">>)
            /\ Occurrences(result, <<">">>) = Occurrences(plain.result, <<">">>)
            /\ \A i \in 1..Len(result) : result[i] = "&" => EntityAt(result, i)

\* the same of the documents without a language node and without an error
SourceEscaped_NoLanguageNoError ==
    (/\ \A n \in Nodes(tree) : kind(tree, n) # "language"
     /\ ~has_error(tree, 1))
        => C30_SourceEscaped

\* the same of the documents without an error, where no text is cut
SourceEscaped_NoError == ~has_error(tree, 1) => C30_SourceEscaped

====
